---- MODULE Spec2Model ----
(***************************************************************************)
(* Verification model of the robotin-control query pipeline:               *)
(*   LLMService.chat        ordered provider fallback                      *)
(*   RetrievalService       scoring, reranking, deduplication, truncation  *)
(*   PromptBuilder          budget-bounded passage selection               *)
(*   ResponseProcessor      citation extraction, grounding, confidence     *)
(*   QueryEngine.query      the orchestration of the five stages           *)
(*                                                                         *)
(* Text is modelled as a sequence of tokens.  A token is a record          *)
(* [t, d]: t is the literal text of the token and d the digit string that  *)
(* follows it (digits are only non-empty for citation-marker tokens).      *)
(* Numbers in [0,1] (relevance, score) are held in tenths.                 *)
(***************************************************************************)
EXTENDS Integers, Sequences, FiniteSets, TLC

VARIABLES
    config,        \* getConfig(): which API keys are configured
    providers,     \* LLMService.providers
    isInitialized, \* LLMService.isInitialized
    cpc,           \* position of LLMService.chat: idle, loop, returned, threw
    idx,           \* 1-based position of the for..of loop over providers
    errors,        \* chat's local array errors
    probes,        \* history: <<provider, isAvailable() result>> in call order
    calls,         \* history: <<provider, outcome of provider.chat>> in call order
    chatMessages,  \* the messages argument of the chat call in progress
    chatResult,    \* what chat returned or threw
    qpc,           \* position of QueryEngine.query
    llmPromise,    \* QueryEngine.llmPromise: resolved or rejected
    question,      \* the question argument of query
    qopts,         \* the options argument of query
    collabFailure, \* what a retrieval collaborator threw during this query, if any
    retrieved,     \* outcome of retrieval.retrieve inside query
    prompt,        \* the BuiltPrompt of query
    generateArgs,  \* the arguments query handed to llm.generate
    qresult,       \* the QueryResult query resolved to
    content,       \* ResponseProcessor.process: llmResponse.content
    contextChunks, \* ResponseProcessor.process: contextChunks
    processed,     \* the ProcessedResponse last produced
    lastOp,        \* which ResponseProcessor method produced it
    rrInput,       \* RetrievalService: the chunk list under treatment
    rrOutput,      \* RetrievalService: the list a step returned
    rrOp,          \* RetrievalService: the step that returned it
    rtCall,        \* RetrievalService.retrieve: the arguments and the index it ran against
    rtResult,      \* RetrievalService.retrieve: what the call resolved or rejected with
    pbChunks,      \* PromptBuilder.build: the chunks argument of the last call
    procLog,       \* history: the arguments and result of every process call so far
    llmServiceInstance, \* the module-level singleton: TRUE once an LLMService exists
    callers,       \* per concurrent caller: where it stands in getLLMService / chat
    aqText,        \* QueryAnalyzer.analyze: the query argument, as a sequence of words
    aqResult,      \* QueryAnalyzer.analyze: the AnalyzedQuery returned
    smSession,     \* SessionManager: the session held in activeSessions and in the store
    smBefore,      \* SessionManager.addMessage: session.context when the last call began
    smAdded,       \* SessionManager.addMessage: the messages added so far, in call order
    psRows,        \* table project_states of one project: the rows, in insertion order
    psCalls,       \* ProjectStateManager: every call begun so far and where it stands
    psLog,         \* history: every finished call with its outcome, in order of completion
    igDocs,        \* table documents of one project: the rows, in insertion order
    igBefore,      \* IngestionService.ingestDocument: the rows when the last call began
    igLast,        \* IngestionService.ingestDocument: the last call and how it ended
    igCount        \* the number of ingestDocument calls so far

chatVars  == <<config, providers, isInitialized, cpc, idx, errors, probes, calls,
               chatMessages, chatResult>>
queryVars == <<qpc, llmPromise, question, qopts, collabFailure, retrieved, prompt, generateArgs,
              qresult>>
procVars  == <<content, contextChunks, processed, lastOp>>
retrVars  == <<rrInput, rrOutput, rrOp, rtCall, rtResult>>
initVars  == <<llmServiceInstance, callers>>
analyzeVars == <<aqText, aqResult>>
sessionVars == <<smSession, smBefore, smAdded>>
stateVars == <<psRows, psCalls, psLog>>
ingestVars == <<igDocs, igBefore, igLast, igCount>>
storeVars == <<sessionVars, stateVars, ingestVars>>
pipelineVars == <<chatVars, queryVars, procVars, retrVars, pbChunks, procLog, initVars, analyzeVars>>
soloVars  == <<pbChunks, procLog, initVars, analyzeVars, storeVars>>
vars      == <<chatVars, queryVars, procVars, retrVars, soloVars>>

None == "none"

(***************************************************************************)
(* Generic helpers                                                         *)
(***************************************************************************)
Range(s) == {s[i] : i \in 1..Len(s)}

RECURSIVE SeqsUpTo(_, _)
SeqsUpTo(S, n) ==
    IF n = 0 THEN {<<>>}
    ELSE LET shorter == SeqsUpTo(S, n - 1)
         IN  shorter \cup {Append(s, x) : s \in {r \in shorter : Len(r) = n - 1}, x \in S}

Min(a, b) == IF a <= b THEN a ELSE b

(***************************************************************************)
(* Text                                                                    *)
(***************************************************************************)
Word(s)  == [t |-> s, d |-> <<>>]
Cite(ds) == [t |-> "[source:", d |-> ds]

\* A thrown JavaScript value: an Error object with its message, or another value.
ErrorOf(msg)   == [isError |-> TRUE, message |-> msg]
ThrownValue(v) == [isError |-> FALSE, message |-> v]
NoError        == [isError |-> FALSE, message |-> <<>>]

(***************************************************************************)
(* LLM providers (LMStudioProvider, DeepSeekProvider, KimiProvider,        *)
(* OpenAIProvider) and what their remote endpoints can answer              *)
(***************************************************************************)
Configs == [deepseekApiKey : BOOLEAN, kimiApiKey : BOOLEAN, openaiApiKey : BOOLEAN]

\* The contents a remote model may produce in the chat and query specifications.
ReplyContents ==
    { <<Word("The login flow issues a token."), Cite(<<1>>)>>,
      <<Word(" "), Word("Typically the gateway validates it."), Cite(<<2>>), Word(" ")>>,
      <<>> }

TokenUsages == {57}

NoResponse == [content |-> <<>>, tokensUsed |-> 0, model |-> None, provider |-> None]

\* The model identifier the remote side reports back (data.model).
ModelOf(p) ==
    CASE p = "lmstudio" -> "local-model"
      [] p = "deepseek" -> "deepseek-chat"
      [] p = "kimi"     -> "kimi-k2"
      [] OTHER          -> "gpt-3.5-turbo"

\* The Error each provider's chat throws on a non-ok HTTP response.
HttpError(p) ==
    CASE p = "lmstudio" -> ErrorOf(<<"LM Studio error: 500">>)
      [] p = "deepseek" -> ErrorOf(<<"DeepSeek error: 500 - ", "overloaded">>)
      [] p = "kimi"     -> ErrorOf(<<"Kimi error: 429 - ", "rate limited">>)
      [] OTHER          -> ErrorOf(<<"OpenAI error: 401">>)

\* fetch() rejecting (network failure) inside provider.chat.
FetchFailed == ErrorOf(<<"fetch failed">>)

\* provider.chat(messages, options): the LLMResponse it resolves to, or the
\* value it throws.
ProviderChatOutcomes(p) ==
    { [ok |-> TRUE,
       response |-> [content |-> c, tokensUsed |-> u, model |-> ModelOf(p), provider |-> p],
       thrown |-> NoError] : c \in ReplyContents, u \in TokenUsages }
    \cup
    { [ok |-> FALSE, response |-> NoResponse, thrown |-> e] : e \in {HttpError(p), FetchFailed} }

\* provider.isAvailable(): every provider catches its own failures and
\* answers false, so the probe never throws.
IsAvailableOutcomes == BOOLEAN

(***************************************************************************)
(* LLMService                                                              *)
(***************************************************************************)
\* initialize(): the providers pushed, in priority order.
InitializedProviders(cfg) ==
    <<"lmstudio">>
    \o (IF cfg.deepseekApiKey THEN <<"deepseek">> ELSE <<>>)
    \o (IF cfg.kimiApiKey THEN <<"kimi">> ELSE <<>>)
    \o (IF cfg.openaiApiKey THEN <<"openai">> ELSE <<>>)

\* error instanceof Error ? error.message : String(error)
ChatErrorMessage(thrown) == thrown.message

\* errors.map(e => `${e.provider} (${e.error})`).join(', ') behind the fixed prefix.
RECURSIVE JoinErrors(_)
JoinErrors(errs) ==
    IF errs = <<>> THEN <<>>
    ELSE LET e == Head(errs)
             one == <<e.provider, " (">> \o e.error \o <<")">>
         IN  IF Len(errs) = 1 THEN one ELSE one \o <<", ">> \o JoinErrors(Tail(errs))

AggregateMessage(errs) == <<"All LLM providers failed: ">> \o JoinErrors(errs)

\* initialize() from the test of the given API key onwards, with provs registered
\* so far: it runs until the next dynamic import is awaited or to its end.
RECURSIVE InitializeFrom(_, _)
InitializeFrom(provs, stage) ==
    CASE stage = "deepseek" ->
           IF config.deepseekApiKey
           THEN [providers |-> provs, isInitialized |-> FALSE, at |-> "awaitDeepseek"]
           ELSE InitializeFrom(provs, "kimi")
      [] stage = "kimi" ->
           IF config.kimiApiKey
           THEN [providers |-> provs, isInitialized |-> FALSE, at |-> "awaitKimi"]
           ELSE InitializeFrom(provs, "openai")
      [] OTHER ->
           [providers     |-> provs \o (IF config.openaiApiKey THEN <<"openai">> ELSE <<>>),
            isInitialized |-> TRUE,
            at            |-> "finished"]

\* initialize() entered: the guard, the LM Studio provider, then the API keys.
InitializeEntry ==
    IF isInitialized
    THEN [providers |-> providers, isInitialized |-> TRUE, at |-> "finished"]
    ELSE InitializeFrom(Append(providers, "lmstudio"), "deepseek")

\* initialize() resumed after the dynamic import it awaited.
InitializeResume(at) ==
    IF at = "awaitDeepseek"
    THEN InitializeFrom(Append(providers, "deepseek"), "kimi")
    ELSE InitializeFrom(Append(providers, "kimi"), "openai")

\* What the catch block of the loop records for a provider that threw.
RecordFailure(errs, p, thrown) ==
    Append(errs, [provider |-> p, error |-> ChatErrorMessage(thrown)])

\* chat entered: await this.initialize(), const errors = [], loop begins.
ChatEnter(messages) ==
    /\ providers' = IF isInitialized THEN providers ELSE InitializedProviders(config)
    /\ isInitialized' = TRUE
    /\ errors' = <<>>
    /\ idx' = 1
    /\ probes' = <<>>
    /\ calls' = <<>>
    /\ chatMessages' = messages
    /\ chatResult' = [kind |-> None, response |-> NoResponse, error |-> NoError]
    /\ cpc' = "probe"
    /\ UNCHANGED config

\* A plausible slip: the continue is missing and the unavailable provider is called.
OnUnavailableCallsAnyway ==
    /\ cpc' = "call"
    /\ UNCHANGED <<idx, errors>>

\* if (!available) { ...; continue; }
OnUnavailable ==
    /\ idx' = idx + 1
    /\ UNCHANGED <<cpc, errors>>

\* const available = await provider.isAvailable();
Probe ==
    /\ cpc = "probe"
    /\ idx <= Len(providers)
    /\ \E available \in IsAvailableOutcomes :
         /\ probes' = Append(probes, <<providers[idx], available>>)
         /\ IF available
            THEN /\ cpc' = "call"
                 /\ UNCHANGED <<idx, errors>>
            ELSE OnUnavailable
    /\ UNCHANGED <<config, providers, isInitialized, calls, chatMessages, chatResult>>
    /\ UNCHANGED <<queryVars, procVars, retrVars, soloVars>>

\* A plausible slip: the response is kept but the loop goes on to the next provider.
OnResponseKeepsLooping(response) ==
    /\ chatResult' = [kind |-> "response", response |-> response, error |-> NoError]
    /\ cpc' = IF idx < Len(providers) THEN "probe" ELSE "returned"
    /\ idx' = IF idx < Len(providers) THEN idx + 1 ELSE idx
    /\ UNCHANGED errors

\* provider.chat resolved: return response.
OnResponse(response) ==
    /\ chatResult' = [kind |-> "response", response |-> response, error |-> NoError]
    /\ cpc' = "returned"
    /\ UNCHANGED <<idx, errors>>

\* A plausible slip: the first provider failure is rethrown instead of recorded.
OnFailureRethrows(thrown) ==
    /\ errors' = RecordFailure(errors, providers[idx], thrown)
    /\ chatResult' = [kind |-> "error", response |-> NoResponse, error |-> thrown]
    /\ cpc' = "threw"
    /\ UNCHANGED idx

\* provider.chat threw: the catch block records it and the loop continues.
OnFailure(thrown) ==
    /\ errors' = RecordFailure(errors, providers[idx], thrown)
    /\ idx' = idx + 1
    /\ cpc' = "probe"
    /\ UNCHANGED chatResult

\* const response = await provider.chat(messages, options);
Call ==
    /\ cpc = "call"
    /\ \E o \in ProviderChatOutcomes(providers[idx]) :
         /\ calls' = Append(calls, [provider |-> providers[idx], outcome |-> o])
         /\ IF o.ok THEN OnResponse(o.response) ELSE OnFailure(o.thrown)
    /\ UNCHANGED <<config, providers, isInitialized, probes, chatMessages>>
    /\ UNCHANGED <<queryVars, procVars, retrVars, soloVars>>

\* The loop ran out of providers: throw new Error(`All LLM providers failed: ...`).
ChatFail ==
    /\ cpc = "probe"
    /\ idx > Len(providers)
    /\ chatResult' = [kind |-> "error", response |-> NoResponse,
                      error |-> ErrorOf(AggregateMessage(errors))]
    /\ cpc' = "threw"
    /\ UNCHANGED <<config, providers, isInitialized, idx, errors, probes, calls,
                   chatMessages>>
    /\ UNCHANGED <<queryVars, procVars, retrVars, soloVars>>

\* The messages a direct caller hands to chat.
DirectMessages ==
    { <<[role |-> "user", content |-> "question"]>>,
      <<[role |-> "system", content |-> "rules"], [role |-> "user", content |-> "question"]>> }

\* A caller invokes llmService.chat(messages).
ChatStart ==
    /\ cpc \in {"idle", "returned", "threw"}
    /\ \E m \in DirectMessages : ChatEnter(m)
    /\ UNCHANGED <<queryVars, procVars, retrVars, soloVars>>

(***************************************************************************)
(* ResponseProcessor                                                       *)
(***************************************************************************)
\* String.prototype.toLowerCase on the texts the model uses.
ToLowerCase(s) ==
    CASE s = "I don't have enough information" -> "i don't have enough information"
      [] s = "I don't have enough information in the indexed documentation to answer that question."
             -> "i don't have enough information in the indexed documentation to answer that question."
      [] s = "Typically" -> "typically"
      [] s = "Typically the gateway validates it." -> "typically the gateway validates it."
      [] s = "The login flow issues a token." -> "the login flow issues a token."
      [] s = "You can:" -> "you can:"
      [] OTHER -> s

\* The pairs <<m, s>> of lower-case texts of the model with m a proper substring of s.
SubstringPairs ==
    { <<"i don't have enough information",
        "i don't have enough information in the indexed documentation to answer that question.">>,
      <<"typically", "typically the gateway validates it.">> }

\* content.toLowerCase().includes(m)
Includes(text, m) ==
    \E i \in 1..Len(text) :
        LET low == ToLowerCase(text[i].t)
        IN  low = m \/ <<m, low>> \in SubstringPairs

InsufficiencyAdmissions ==
    { "i don't have enough information", "no relevant information",
      "not found in the documentation" }

UncertaintyMarkers ==
    { "might be", "could be", "possibly", "perhaps", "maybe", "i'm not sure",
      "unclear", "ambiguous", "appears to" }

HallucinationMarkers ==
    { "according to my knowledge", "as an ai", "i believe", "in my opinion",
      "typically", "usually", "generally" }

\* parseInt(match[1], 10) on a string of decimal digits.
RECURSIVE ParseInt(_)
ParseInt(ds) ==
    IF ds = <<>> THEN 0 ELSE ParseInt(SubSeq(ds, 1, Len(ds) - 1)) * 10 + ds[Len(ds)]

\* One match of /\[source:(\d+)\]/g
IsCitationMarker(tok) == tok.t = "[source:" /\ Len(tok.d) >= 1

\* The Set citedNumbers in insertion order: each number once, at its first match.
RECURSIVE CitedNumbers(_)
CitedNumbers(text) ==
    IF text = <<>> THEN <<>>
    ELSE LET before == CitedNumbers(SubSeq(text, 1, Len(text) - 1))
             tok    == text[Len(text)]
         IN  IF IsCitationMarker(tok) /\ ParseInt(tok.d) \notin Range(before)
             THEN Append(before, ParseInt(tok.d))
             ELSE before

\* chunk.content.slice(0, 200) + (chunk.content.length > 200 ? '...' : '')
Excerpt(c) == [text |-> c.text, len |-> Min(c.len, 200), ellipsis |-> c.len > 200]

\* A plausible slip: the marker number used as a 0-based index.
ChunkAtZeroBased(chunks, num) ==
    IF num + 1 \in 1..Len(chunks) THEN <<chunks[num + 1]>> ELSE <<>>

\* chunks[num - 1]: the chunk, or nothing when the index is outside the array.
ChunkAt(chunks, num) ==
    IF num \in 1..Len(chunks) THEN <<chunks[num]>> ELSE <<>>

\* The loop over citedNumbers that pushes one SourceCitation per existing chunk.
RECURSIVE MapCitations(_, _)
MapCitations(nums, chunks) ==
    IF nums = <<>> THEN <<>>
    ELSE LET rest  == MapCitations(SubSeq(nums, 1, Len(nums) - 1), chunks)
             num   == nums[Len(nums)]
             found == ChunkAt(chunks, num)
         IN  IF found = <<>> THEN rest
             ELSE Append(rest, [number     |-> num,
                                chunkId    |-> found[1].chunkId,
                                documentId |-> found[1].documentId,
                                content    |-> Excerpt(found[1].content),
                                relevance  |-> found[1].score])

\* citations.sort((a, b) => a.number - b.number): a stable ascending sort.
RECURSIVE SortByNumber(_)
SortByNumber(cits) ==
    IF cits = <<>> THEN <<>>
    ELSE LET sorted == SortByNumber(SubSeq(cits, 1, Len(cits) - 1))
             c      == cits[Len(cits)]
             k      == Cardinality({i \in 1..Len(sorted) : sorted[i].number <= c.number})
         IN  SubSeq(sorted, 1, k) \o <<c>> \o SubSeq(sorted, k + 1, Len(sorted))

ExtractCitations(text, chunks) == SortByNumber(MapCitations(CitedNumbers(text), chunks))

RECURSIVE SumRelevance(_)
SumRelevance(cits) ==
    IF cits = <<>> THEN 0 ELSE cits[1].relevance + SumRelevance(Tail(cits))

\* The score of determineConfidence, in tenths.  A citation's relevance is the
\* chunk's score, in units of 1/5000, so the mean exceeds 0.8 when
\* sum > 4000 * n and 0.6 when sum > 3000 * n.  With no citation the mean is
\* 0/0 = NaN and both comparisons against it are false.
\* A plausible slip: the relevance bands include their lower limit.
ConfidenceScoreInclusiveBands(text, cits) ==
    LET n == Len(cits)
        sum == SumRelevance(cits)
    IN  (IF n > 0 THEN 3 ELSE 0)
        + (IF n > 0 /\ sum >= 4000 * n THEN 3 ELSE IF n > 0 /\ sum >= 3000 * n THEN 2 ELSE 0)
        + (IF n >= 3 THEN 2 ELSE IF n >= 2 THEN 1 ELSE 0)
        + (IF \E m \in UncertaintyMarkers : Includes(text, m) THEN 0 ELSE 2)

ConfidenceScore(text, cits) ==
    LET n == Len(cits)
        sum == SumRelevance(cits)
    IN  (IF n > 0 THEN 3 ELSE 0)
        + (IF n > 0 /\ sum > 4000 * n THEN 3 ELSE IF n > 0 /\ sum > 3000 * n THEN 2 ELSE 0)
        + (IF n >= 3 THEN 2 ELSE IF n >= 2 THEN 1 ELSE 0)
        + (IF \E m \in UncertaintyMarkers : Includes(text, m) THEN 0 ELSE 2)

\* A plausible slip: the early return on an insufficiency admission is missing.
DetermineConfidenceNoAdmissionCheck(text, cits, chunks) ==
    LET score == ConfidenceScore(text, cits)
    IN  IF score >= 8 THEN "high"
        ELSE IF score >= 5 THEN "medium"
        ELSE IF score >= 3 THEN "low"
        ELSE "insufficient"

DetermineConfidence(text, cits, chunks) ==
    IF \E m \in InsufficiencyAdmissions : Includes(text, m)
    THEN "insufficient"
    ELSE LET score == ConfidenceScore(text, cits)
         IN  IF score >= 8 THEN "high"
             ELSE IF score >= 5 THEN "medium"
             ELSE IF score >= 3 THEN "low"
             ELSE "insufficient"

CheckGrounding(text, cits) ==
    IF Len(cits) = 0 THEN FALSE
    ELSE ~ \E m \in HallucinationMarkers : Includes(text, m)

IsWhitespace(tok) == tok.t = " " /\ tok.d = <<>>

\* content.trim()
RECURSIVE CleanAnswer(_)
CleanAnswer(text) ==
    IF text = <<>> THEN <<>>
    ELSE IF IsWhitespace(Head(text)) THEN CleanAnswer(Tail(text))
    ELSE IF IsWhitespace(text[Len(text)]) THEN CleanAnswer(SubSeq(text, 1, Len(text) - 1))
    ELSE text

\* A plausible slip: the set of cited numbers is kept on the processor and still
\* holds the numbers resolved by the previous call.
ProcessResponseRemembersCitations(llmResponse, chunks, ms) ==
    LET earlier == [i \in 1..Len(processed.sources) |->
                       Cite(<<processed.sources[i].number>>)]
        cits    == ExtractCitations(earlier \o llmResponse.content, chunks)
    IN  [answer     |-> CleanAnswer(llmResponse.content),
         sources    |-> cits,
         confidence |-> DetermineConfidence(llmResponse.content, cits, chunks),
         metadata   |-> [processingTimeMs |-> ms,
                         chunksUsed       |-> Len(chunks),
                         tokensUsed       |-> llmResponse.tokensUsed,
                         modelUsed        |-> llmResponse.model,
                         hasCitations     |-> Len(cits) > 0,
                         isGrounded       |-> CheckGrounding(llmResponse.content, cits)]]

\* process(llmResponse, contextChunks, processingTimeMs)
ProcessResponse(llmResponse, chunks, ms) ==
    LET cits == ExtractCitations(llmResponse.content, chunks)
    IN  [answer     |-> CleanAnswer(llmResponse.content),
         sources    |-> cits,
         confidence |-> DetermineConfidence(llmResponse.content, cits, chunks),
         metadata   |-> [processingTimeMs |-> ms,
                         chunksUsed       |-> Len(chunks),
                         tokensUsed       |-> llmResponse.tokensUsed,
                         modelUsed        |-> llmResponse.model,
                         hasCitations     |-> Len(cits) > 0,
                         isGrounded       |-> CheckGrounding(llmResponse.content, cits)]]

NoInfoAnswer ==
    << Word("I don't have enough information in the indexed documentation to answer that question."),
       Word("You can:"),
       Word("1. Try rephrasing your question"),
       Word("2. Add relevant documentation with robotin add <file>"),
       Word("3. Check if the topic exists under a different name") >>

\* processNoInfoResponse(processingTimeMs); tokensUsed and modelUsed are absent.
ProcessNoInfoResponse(ms) ==
    [answer     |-> NoInfoAnswer,
     sources    |-> <<>>,
     confidence |-> "insufficient",
     metadata   |-> [processingTimeMs |-> ms,
                     chunksUsed       |-> 0,
                     tokensUsed       |-> 0,
                     modelUsed        |-> None,
                     hasCitations     |-> FALSE,
                     isGrounded       |-> TRUE]]

(***************************************************************************)
(* QueryAnalyzer, as far as retrieval and prompt building read its result  *)
(***************************************************************************)
Questions ==
    { "What is the authentication flow?", "Which endpoint returns the token?",
      "How is the system structured?" }

\* A query text is a sequence of words; whitespace runs between words and the
\* trimmed ends are what separates them.  The words of the questions above:
QuestionWords(q) ==
    CASE q = "What is the authentication flow?"
           -> <<"What", "is", "the", "authentication", "flow", "?">>
      [] q = "Which endpoint returns the token?"
           -> <<"Which", "endpoint", "returns", "the", "token", "?">>
      [] q = "How is the system structured?"
           -> <<"How", "is", "the", "system", "structured", "?">>
      [] OTHER -> <<>>

LowerWord(w) ==
    CASE w = "What" -> "what" [] w = "Which" -> "which" [] w = "How" -> "how"
      [] w = "API" -> "api" [] OTHER -> w

TrailingPunctuation == {"?", ".", ",", "!", ";", ":"}

\* normalize(query): lower case, trimmed, whitespace collapsed, one trailing
\* punctuation mark removed.
Normalize(words) ==
    LET lower == [i \in 1..Len(words) |-> LowerWord(words[i])]
    IN  IF lower # <<>> /\ lower[Len(lower)] \in TrailingPunctuation
        THEN SubSeq(lower, 1, Len(lower) - 1)
        ELSE lower

StartsWith(text, phrase) ==
    Len(phrase) <= Len(text) /\ SubSeq(text, 1, Len(phrase)) = phrase

ContainsPhrase(text, phrase) ==
    \E i \in 1..(Len(text) - Len(phrase) + 1) : SubSeq(text, i, i + Len(phrase) - 1) = phrase

\* /\b(how (is|does) .* (work|organized|structured))\b/
HowIsPattern(text) ==
    \E i, j \in 1..Len(text) :
        /\ text[i] = "how"
        /\ i + 1 <= Len(text) /\ text[i + 1] \in {"is", "does"}
        /\ j >= i + 3
        /\ text[j] \in {"work", "organized", "structured"}

\* regex.test(query) for one pattern of the table: an alternation anchored at
\* the start, an alternation between word boundaries, or the how-is pattern.
PatternMatches(p, text) ==
    CASE p.kind = "start"    -> \E ph \in p.phrases : StartsWith(text, ph)
      [] p.kind = "word"     -> \E ph \in p.phrases : ContainsPhrase(text, ph)
      [] p.kind = "howIs"    -> HowIsPattern(text)
      [] OTHER               -> TRUE

AtStart(phrases) == [kind |-> "start", phrases |-> phrases]
AnyWord(phrases) == [kind |-> "word", phrases |-> phrases]

\* const patterns: Record<QueryIntent, RegExp[]>, in the order of its keys.
IntentPatterns ==
    << [intent |-> "definition", patterns |->
          << AtStart({<<"what", "is">>, <<"what's">>, <<"define">>, <<"explain">>,
                      <<"describe">>, <<"meaning", "of">>}),
             AnyWord({<<"definition">>, <<"meaning">>, <<"concept">>}) >>],
       [intent |-> "how_to", patterns |->
          << AtStart({<<"how", "do">>, <<"how", "can">>, <<"how", "to">>,
                      <<"step", "to">>, <<"steps", "to">>, <<"step", "for">>,
                      <<"steps", "for">>, <<"guide", "to">>, <<"guide", "for">>,
                      <<"tutorial">>}),
             AnyWord({<<"install">>, <<"setup">>, <<"configure">>, <<"implement">>,
                      <<"use">>}) >>],
       [intent |-> "comparison", patterns |->
          << AnyWord({<<"compare">>, <<"versus">>, <<"vs">>, <<"difference", "between">>,
                      <<"similarities">>, <<"pro", "and", "con">>, <<"pros", "and", "con">>,
                      <<"pro", "and", "cons">>, <<"pros", "and", "cons">>}),
             AnyWord({<<"better", "than">>, <<"worse", "than">>, <<"advantage">>,
                      <<"advantages">>}) >>],
       [intent |-> "troubleshoot", patterns |->
          << AnyWord({<<"error">>, <<"bug">>, <<"issue">>, <<"problem">>, <<"fail">>,
                      <<"crash">>, <<"broken">>, <<"not", "working">>,
                      <<"doesn't", "work">>}),
             AnyWord({<<"fix">>, <<"solve">>, <<"debug">>, <<"troubleshoot">>,
                      <<"resolve">>}) >>],
       [intent |-> "architecture", patterns |->
          << AnyWord({<<"architecture">>, <<"structure">>, <<"design">>, <<"component">>,
                      <<"components">>, <<"module">>, <<"modules">>, <<"system">>}),
             [kind |-> "howIs", phrases |-> {}],
             AnyWord({<<"data", "flow">>, <<"interaction">>, <<"relationship">>}) >>],
       [intent |-> "api_reference", patterns |->
          << AnyWord({<<"api">>, <<"endpoint">>, <<"method">>, <<"function">>, <<"class">>,
                      <<"interface">>, <<"parameter">>, <<"return">>}),
             AnyWord({<<"request">>, <<"response">>, <<"json">>, <<"schema">>,
                      <<"type">>}) >>],
       [intent |-> "example", patterns |->
          << AnyWord({<<"example">>, <<"sample">>, <<"demo">>, <<"show", "me">>,
                      <<"snippet">>, <<"code">>}),
             AnyWord({<<"how", "to", "write">>, <<"how", "to", "create">>,
                      <<"how", "to", "make">>}) >>],
       [intent |-> "general", patterns |-> <<[kind |-> "any", phrases |-> {}]>>] >>

\* A plausible slip: a match is remembered instead of returned, so the last
\* matching entry of the table wins.
DetectIntentNoEarlyReturn(text, k) ==
    LET hits == {m \in k..Len(IntentPatterns) :
                    \E j \in 1..Len(IntentPatterns[m].patterns) :
                        PatternMatches(IntentPatterns[m].patterns[j], text)}
    IN  IF hits = {} THEN "general"
        ELSE IntentPatterns[CHOOSE m \in hits : \A n \in hits : n <= m].intent

\* The loops of detectIntent from the k-th entry of the table on.
RECURSIVE DetectIntentFrom(_, _)
DetectIntentFrom(text, k) ==
    IF k > Len(IntentPatterns) THEN "general"
    ELSE IF \E j \in 1..Len(IntentPatterns[k].patterns) :
                PatternMatches(IntentPatterns[k].patterns[j], text)
         THEN IntentPatterns[k].intent
         ELSE DetectIntentFrom(text, k + 1)

\* detectIntent(query)
DetectIntent(text) == DetectIntentFrom(text, 1)

\* detectIntent on the normalized questions above.
IntentOf(q) == DetectIntent(Normalize(QuestionWords(q)))

\* inferDocumentTypes: the typeMap, in its order.
InferDocumentTypes(intent) ==
    CASE intent = "api_reference" -> <<"openapi", "txt">>
      [] intent = "architecture"  -> <<"plantuml", "txt">>
      [] intent = "troubleshoot"  -> <<"txt", "openapi">>
      [] intent = "how_to"        -> <<"txt", "openapi">>
      [] intent = "definition"    -> <<"txt", "openapi">>
      [] intent = "comparison"    -> <<"txt", "plantuml">>
      [] intent = "example"       -> <<"openapi", "txt">>
      [] OTHER                    -> <<"txt", "openapi", "plantuml">>

Analyze(q) ==
    [original |-> q, intent |-> IntentOf(q), documentTypes |-> InferDocumentTypes(IntentOf(q))]

\* const stopWords = new Set([...])
StopWords ==
    { "a", "an", "the", "is", "are", "was", "were", "be", "been",
      "being", "have", "has", "had", "do", "does", "did", "will",
      "would", "could", "should", "may", "might", "must", "shall",
      "can", "need", "dare", "ought", "used", "to", "of", "in",
      "for", "on", "with", "at", "by", "from", "as", "into",
      "through", "during", "before", "after", "above", "below",
      "between", "under", "and", "but", "or", "yet", "so" }

\* The characters the class [a-z0-9] holds.
LowerAlphaNumerics ==
    { "a", "b", "c", "d", "e", "f", "g", "h", "i", "j", "k", "l", "m", "n", "o", "p", "q",
      "r", "s", "t", "u", "v", "w", "x", "y", "z",
      "0", "1", "2", "3", "4", "5", "6", "7", "8", "9" }

\* word.replace(/[^a-z0-9]/g, ''); a word is a string, that is: a sequence of
\* characters.
RECURSIVE StripNonAlphaNumerics(_)
StripNonAlphaNumerics(word) ==
    IF Len(word) = 0 THEN ""
    ELSE (IF SubSeq(word, 1, 1) \in LowerAlphaNumerics THEN SubSeq(word, 1, 1) ELSE "")
         \o StripNonAlphaNumerics(SubSeq(word, 2, Len(word)))

\* .filter(word => word.length > 2 && !stopWords.has(word))
IsKeywordCandidate(word) == Len(word) > 2 /\ word \notin StopWords

\* extractKeywords(query): split on whitespace, filter by length and stop
\* words, strip the characters outside [a-z0-9], drop what became empty.
ExtractKeywords(normalized) ==
    LET candidates == SelectSeq(normalized, IsKeywordCandidate)
        stripped   == [i \in 1..Len(candidates) |-> StripNonAlphaNumerics(candidates[i])]
    IN  SelectSeq(stripped, LAMBDA k : k # "")

\* analyze(query) for a query given by its words.
AnalyzeWords(words) ==
    LET normalized == Normalize(words)
        intent     == DetectIntent(normalized)
    IN  [original |-> words, normalized |-> normalized, intent |-> intent,
         keywords |-> ExtractKeywords(normalized),
         documentTypes |-> InferDocumentTypes(intent)]

NoAnalysis ==
    [original |-> <<>>, normalized |-> <<>>, intent |-> None, keywords |-> <<>>,
     documentTypes |-> <<>>]

(***************************************************************************)
(* VectorStore.search and RetrievalService                                 *)
(* A row of the index holds its L2 distance in halves; relevance and       *)
(* weight are in tenths; a score is in units of 1/5000.                    *)
(***************************************************************************)
\* const distanceToSimilarity = dist => Math.max(0, 1 - dist / 5), in tenths.
DistanceToSimilarity(distHalves) == IF distHalves >= 10 THEN 0 ELSE 10 - distHalves

RowToResult(row) ==
    [chunkId      |-> row.chunkId,
     documentId   |-> row.documentId,
     projectId    |-> row.projectId,
     content      |-> row.content,
     relevance    |-> DistanceToSimilarity(row.distance),
     documentType |-> row.documentType,
     weight       |-> row.weight]

\* A plausible slip: like the WHERE filters, the post-filters on the string
\* fields are skipped and only the threshold is applied.
KeepResultThresholdOnly(r, opts) == r.relevance >= opts.threshold

\* The post-filters of search: projectId, documentTypes, threshold.
KeepResult(r, opts) ==
    /\ opts.projectId = None \/ r.projectId = opts.projectId
    /\ opts.documentTypes = <<>> \/ r.documentType \in Range(opts.documentTypes)
    /\ r.relevance >= opts.threshold

RECURSIVE FilterResults(_, _)
FilterResults(s, opts) ==
    IF s = <<>> THEN <<>>
    ELSE LET rest == FilterResults(SubSeq(s, 1, Len(s) - 1), opts)
         IN  IF KeepResult(s[Len(s)], opts) THEN Append(rest, s[Len(s)]) ELSE rest

\* VectorStore.search(queryVector, options): the nearest opts.limit rows, mapped,
\* then post-filtered.
VectorSearch(rows, opts) ==
    LET nearest == SubSeq(rows, 1, Min(opts.limit, Len(rows)))
    IN  FilterResults([i \in 1..Len(nearest) |-> RowToResult(nearest[i])], opts)

\* calculateScore(result, query), in units of 1/5000:
\* relevance * (1 + weight * 0.2), * 1.1 on an intent match, capped at 1.
CalculateScore(r, query) ==
    LET base  == r.relevance * (50 + r.weight)
        boost == \/ query.intent = "api_reference" /\ r.documentType = "openapi"
                 \/ query.intent = "architecture" /\ r.documentType = "plantuml"
    IN  Min(5000, IF boost THEN base * 11 ELSE base * 10)

ToChunk(r, rank, score) ==
    [chunkId      |-> r.chunkId,
     documentId   |-> r.documentId,
     projectId    |-> r.projectId,
     content      |-> r.content,
     relevance    |-> r.relevance,
     documentType |-> r.documentType,
     weight       |-> r.weight,
     rank         |-> rank,
     score        |-> score,
     duplicateOf  |-> 0]

\* [...chunks].sort((a, b) => b.score - a.score): a stable descending sort.
RECURSIVE SortByScore(_)
SortByScore(chunks) ==
    IF chunks = <<>> THEN <<>>
    ELSE LET sorted == SortByScore(SubSeq(chunks, 1, Len(chunks) - 1))
             c      == chunks[Len(chunks)]
             k      == Cardinality({i \in 1..Len(sorted) : sorted[i].score >= c.score})
         IN  SubSeq(sorted, 1, k) \o <<c>> \o SubSeq(sorted, k + 1, Len(sorted))

\* sorted.map((chunk, i) => ({ ...chunk, rank: i + 1 }))
ReassignRanks(chunks) == [i \in 1..Len(chunks) |-> [chunks[i] EXCEPT !.rank = i]]

\* A plausible slip: the comparator sorts ascending.
RerankAscending(chunks) ==
    LET sorted == SortByScore(chunks)
    IN  ReassignRanks([i \in 1..Len(sorted) |-> sorted[Len(sorted) + 1 - i]])

Rerank(chunks) == ReassignRanks(SortByScore(chunks))

\* toLowerCase, whitespace collapsed, trimmed, first 100 characters.
NormalizeContent(text) ==
    CASE text = "Auth  Flow uses JWT" -> "auth flow uses jwt"
      [] text = "auth flow uses JWT " -> "auth flow uses jwt"
      [] text = "Deployment diagram"  -> "deployment diagram"
      [] OTHER -> text

\* createFingerprint(content): the hash of the normalized text, named by that text.
CreateFingerprint(c) == NormalizeContent(c.text)

\* A plausible slip: the first passage of a fingerprint group is kept whatever
\* the scores of the later ones.
RECURSIVE DeduplicateKeepsFirst(_)
DeduplicateKeepsFirst(chunks) ==
    IF chunks = <<>> THEN <<>>
    ELSE LET seen  == DeduplicateKeepsFirst(SubSeq(chunks, 1, Len(chunks) - 1))
             chunk == chunks[Len(chunks)]
         IN  IF \E i \in 1..Len(seen) :
                    CreateFingerprint(seen[i].content) = CreateFingerprint(chunk.content)
             THEN seen
             ELSE Append(seen, chunk)

\* deduplicate(chunks): the Map seen, as the sequence of its values in key order.
RECURSIVE Deduplicate(_)
Deduplicate(chunks) ==
    IF chunks = <<>> THEN <<>>
    ELSE LET seen  == Deduplicate(SubSeq(chunks, 1, Len(chunks) - 1))
             chunk == chunks[Len(chunks)]
             hit   == {i \in 1..Len(seen) :
                          CreateFingerprint(seen[i].content) = CreateFingerprint(chunk.content)}
         IN  IF hit = {} THEN Append(seen, chunk)
             ELSE LET i == CHOOSE j \in hit : TRUE
                  IN  IF chunk.score > seen[i].score
                      THEN [seen EXCEPT ![i] = [chunk EXCEPT !.duplicateOf = seen[i].chunkId]]
                      ELSE seen

\* { ...DEFAULT_RETRIEVAL_OPTIONS, ...options } for the options query passes: rerank and
\* deduplicate keep their defaults, documentTypes stays undefined
\* (hasDocumentTypes = FALSE; an array, even an empty one, is a defined value).
RetrievalOptions(projectId, limit, threshold) ==
    [projectId |-> projectId, hasDocumentTypes |-> FALSE, documentTypes |-> <<>>,
     limit |-> limit, threshold |-> threshold, rerank |-> TRUE, deduplicate |-> TRUE]

\* What the collaborators of one retrieve call do: the two service promises, the
\* embedding call and the vector search each succeed or throw; rows is the index.
RetrievalFailures ==
    { ErrorOf(<<"Embedding model initialization failed">>),
      ErrorOf(<<"Model not initialized">>),
      ErrorOf(<<"Table not initialized">>),
      ThrownValue(<<"lance error">>) }

\* A plausible slip: the catch block logs the failure and returns what it has.
RetrieveSwallowsErrors(analyzedQuery, opts, rows, failure) ==
    [ok |-> TRUE, chunks |-> <<>>, thrown |-> NoError]

\* A plausible slip: the list is cut to limit before it is reranked and
\* deduplicated.
RetrieveCutsFirst(analyzedQuery, opts, rows, failure) ==
    IF failure # NoError
    THEN [ok |-> FALSE, chunks |-> <<>>, thrown |-> failure]
    ELSE LET searchOptions ==
                 [projectId     |-> opts.projectId,
                  documentTypes |-> IF opts.hasDocumentTypes THEN opts.documentTypes
                                    ELSE analyzedQuery.documentTypes,
                  limit         |-> opts.limit * 2,
                  threshold     |-> opts.threshold]
             results  == VectorSearch(rows, searchOptions)
             scored   == [i \in 1..Len(results) |->
                             ToChunk(results[i], i, CalculateScore(results[i], analyzedQuery))]
             cut      == SubSeq(scored, 1, Min(opts.limit, Len(scored)))
             reranked == IF opts.rerank THEN Rerank(cut) ELSE cut
             deduped  == IF opts.deduplicate THEN Deduplicate(reranked) ELSE reranked
         IN  [ok |-> TRUE, chunks |-> deduped, thrown |-> NoError]

\* retrieve(analyzedQuery, options) against an index holding rows; failure is the
\* value a collaborator throws, if one does.
Retrieve(analyzedQuery, opts, rows, failure) ==
    IF failure # NoError
    THEN [ok |-> FALSE, chunks |-> <<>>, thrown |-> failure]
    ELSE LET searchOptions ==
                 [projectId     |-> opts.projectId,
                  documentTypes |-> IF opts.hasDocumentTypes THEN opts.documentTypes
                                    ELSE analyzedQuery.documentTypes,
                  limit         |-> opts.limit * 2,
                  threshold     |-> opts.threshold]
             results  == VectorSearch(rows, searchOptions)
             scored   == [i \in 1..Len(results) |->
                             ToChunk(results[i], i, CalculateScore(results[i], analyzedQuery))]
             reranked == IF opts.rerank THEN Rerank(scored) ELSE scored
             deduped  == IF opts.deduplicate THEN Deduplicate(reranked) ELSE reranked
         IN  [ok |-> TRUE,
              chunks |-> SubSeq(deduped, 1, Min(opts.limit, Len(deduped))),
              thrown |-> NoError]

(***************************************************************************)
(* PromptBuilder                                                           *)
(***************************************************************************)
MAX_CONTEXT_TOKENS == 4000
TOKEN_ESTIMATE_RATIO == 4

\* Math.ceil(length / TOKEN_ESTIMATE_RATIO)
EstimateTokens(len) == (len + TOKEN_ESTIMATE_RATIO - 1) \div TOKEN_ESTIMATE_RATIO

\* A plausible slip: the budget test does not exempt the first chunk.
RECURSIVE SelectLoopStrictBudget(_, _)
SelectLoopStrictBudget(chunks, n) ==
    IF n = 0 THEN [selected |-> <<>>, tokens |-> 0, stopped |-> FALSE]
    ELSE LET st == SelectLoopStrictBudget(chunks, n - 1)
             chunkTokens == EstimateTokens(chunks[n].content.len)
         IN  IF st.stopped THEN st
             ELSE IF st.tokens + chunkTokens > MAX_CONTEXT_TOKENS
                  THEN [st EXCEPT !.stopped = TRUE]
                  ELSE [selected |-> Append(st.selected, chunks[n]),
                        tokens   |-> st.tokens + chunkTokens,
                        stopped  |-> FALSE]

\* A plausible slip: continue instead of break, so a later chunk that fits is
\* still selected.
RECURSIVE SelectLoopSkipsOversized(_, _)
SelectLoopSkipsOversized(chunks, n) ==
    IF n = 0 THEN [selected |-> <<>>, tokens |-> 0, stopped |-> FALSE]
    ELSE LET st == SelectLoopSkipsOversized(chunks, n - 1)
             chunkTokens == EstimateTokens(chunks[n].content.len)
         IN  IF st.tokens + chunkTokens > MAX_CONTEXT_TOKENS /\ Len(st.selected) > 0
             THEN st
             ELSE [selected |-> Append(st.selected, chunks[n]),
                   tokens   |-> st.tokens + chunkTokens,
                   stopped  |-> FALSE]

\* selectChunks: the loop state <<selected, estimatedTokens, stopped>> after the
\* first n chunks.
RECURSIVE SelectLoop(_, _)
SelectLoop(chunks, n) ==
    IF n = 0 THEN [selected |-> <<>>, tokens |-> 0, stopped |-> FALSE]
    ELSE LET st == SelectLoop(chunks, n - 1)
             chunkTokens == EstimateTokens(chunks[n].content.len)
         IN  IF st.stopped THEN st
             ELSE IF st.tokens + chunkTokens > MAX_CONTEXT_TOKENS /\ Len(st.selected) > 0
                  THEN [st EXCEPT !.stopped = TRUE]
                  ELSE [selected |-> Append(st.selected, chunks[n]),
                        tokens   |-> st.tokens + chunkTokens,
                        stopped  |-> FALSE]

SelectChunks(chunks) == SelectLoop(chunks, Len(chunks)).selected

\* The lengths, in characters, of the literals the prompts are assembled from.
BaseInstructionsLength == 569
AntiHallucinationLength == 323
JsonFormatLength == 258
MarkdownFormatLength == 208
ConstraintsLength == 177

\* getIntentSpecificInstructions(intent).length
IntentInstructionsLength(intent) ==
    CASE intent = "definition"    -> 138
      [] intent = "how_to"        -> 118
      [] intent = "comparison"    -> 132
      [] intent = "troubleshoot"  -> 119
      [] intent = "architecture"  -> 116
      [] intent = "api_reference" -> 119
      [] intent = "example"       -> 105
      [] OTHER                    -> 0

\* buildSystemPrompt(intent, format).length
SystemPromptLength(intent, format) ==
    BaseInstructionsLength + AntiHallucinationLength
    + (IF format = "json" THEN JsonFormatLength ELSE MarkdownFormatLength)
    + IntentInstructionsLength(intent)

\* `${(chunk.score * 100).toFixed(1)}%`.length for a score in units of 1/5000
PercentLength(score) == IF score >= 4998 THEN 6 ELSE IF score >= 498 THEN 5 ELSE 4

DocumentTypeLength(t) ==
    CASE t = "txt" -> 3 [] t = "openapi" -> 7 [] t = "plantuml" -> 8 [] OTHER -> 8

\* The length of one `### Source N` block; the chunks carry no section label.
SourceBlockLength(chunk, sourceNum) ==
    26 + (IF sourceNum >= 10 THEN 2 ELSE 1)
    + 6 + DocumentTypeLength(chunk.documentType) + 3 + 11 + PercentLength(chunk.score)
    + 2 + chunk.content.len

RECURSIVE SumBlockLengths(_, _)
SumBlockLengths(chunks, n) ==
    IF n = 0 THEN 0 ELSE SumBlockLengths(chunks, n - 1) + SourceBlockLength(chunks[n], n)

\* buildContextSection(chunks).length
ContextSectionLength(chunks) ==
    IF Len(chunks) = 0 THEN 38
    ELSE 12 + SumBlockLengths(chunks, Len(chunks)) + 7 * (Len(chunks) - 1)

\* query.original.length
QuestionLength(q) ==
    CASE q = "What is the authentication flow?"  -> 32
      [] q = "Which endpoint returns the token?" -> 33
      [] q = "How is the system structured?"     -> 29
      [] OTHER                                   -> 0

\* buildUserPrompt(query, chunks, format).length
UserPromptLength(query, chunks) ==
    ContextSectionLength(chunks) + 2 + 13 + QuestionLength(query.original) + ConstraintsLength

\* build(query, chunks, format): the two prompt blocks by what they are made from.
BuildPrompt(query, chunks, format) ==
    LET selected == SelectChunks(chunks)
    IN  [systemPrompt    |-> [block |-> "system", intent |-> query.intent, format |-> format],
         userPrompt      |-> [block |-> "user", question |-> query.original,
                              context |-> selected, format |-> format],
         contextChunks   |-> selected,
         estimatedTokens |-> EstimateTokens(SystemPromptLength(query.intent, format)
                                            + UserPromptLength(query, selected))]

(***************************************************************************)
(* QueryEngine                                                             *)
(***************************************************************************)
QueryLimit == 10
QueryThreshold == 6

\* Date.now() - startTime, as handed to the response processor.
ElapsedTimes == {35}

QueryOptionSets ==
    { [projectId |-> None, format |-> "markdown", includeSources |-> TRUE],
      [projectId |-> "p1", format |-> "markdown", includeSources |-> TRUE],
      [projectId |-> None, format |-> "json", includeSources |-> FALSE] }

NoRetrieval == [ok |-> FALSE, chunks |-> <<>>, thrown |-> NoError]
NoCall ==
    [query |-> [original |-> None, intent |-> None, documentTypes |-> <<>>],
     opts |-> RetrievalOptions(None, 0, 0), rows |-> <<>>, failure |-> NoError]
\* DEFAULT_QUERY_OPTIONS: temperature and maxTokens of a query that sets neither.
DefaultLlmOptions == [temperature |-> 0, maxTokens |-> 1024]

NoPrompt ==
    [systemPrompt  |-> [block |-> "system", intent |-> None, format |-> None],
     userPrompt    |-> [block |-> "user", question |-> None, context |-> <<>>, format |-> None],
     contextChunks |-> <<>>, estimatedTokens |-> 0]
NoGenerateArgs == [called |-> FALSE, prompt |-> NoPrompt.userPrompt, options |-> DefaultLlmOptions]
NoProcessed ==
    [answer |-> <<>>, sources |-> <<>>, confidence |-> None,
     metadata |-> [processingTimeMs |-> 0, chunksUsed |-> 0, tokensUsed |-> 0,
                   modelUsed |-> None, hasCitations |-> FALSE, isGrounded |-> FALSE]]
NoResult ==
    [success |-> FALSE, answer |-> <<>>, sources |-> <<>>, confidence |-> None,
     chunksRetrieved |-> 0, tokensUsed |-> 0, modelUsed |-> None, error |-> <<>>]

\* The arguments of llm.generate(prompt.userPrompt, llmOptions).
GenerateArguments(built) ==
    [called |-> TRUE, prompt |-> built.userPrompt, options |-> DefaultLlmOptions]

\* error instanceof Error ? error.message : 'Unknown error'
QueryErrorMessage(thrown) == IF thrown.isError THEN thrown.message ELSE <<"Unknown error">>

\* The QueryResult the catch block of query returns.
FailureResult(thrown) ==
    [success |-> FALSE, answer |-> <<>>, sources |-> <<>>, confidence |-> "insufficient",
     chunksRetrieved |-> 0, tokensUsed |-> 0, modelUsed |-> None,
     error |-> QueryErrorMessage(thrown)]

\* A plausible slip: the failing statement sits outside the try block.
CatchRethrows(thrown) ==
    /\ qpc' = "rejected"
    /\ UNCHANGED qresult

\* catch (error) { ...; return { success: false, ... } }
Catch(thrown) ==
    /\ qresult' = FailureResult(thrown)
    /\ qpc' = "done"

\* The QueryResult of the zero-chunk path.
NoInfoResult(ms) ==
    [success |-> TRUE, answer |-> ProcessNoInfoResponse(ms).answer, sources |-> <<>>,
     confidence |-> "insufficient", chunksRetrieved |-> 0, tokensUsed |-> 0,
     modelUsed |-> None, error |-> <<>>]

\* The QueryResult of the generation path.
SuccessResult(proc, llmResponse, chunks, opts) ==
    [success |-> TRUE, answer |-> proc.answer,
     sources |-> IF opts.includeSources THEN chunks ELSE <<>>,
     confidence |-> proc.confidence, chunksRetrieved |-> Len(chunks),
     tokensUsed |-> llmResponse.tokensUsed, modelUsed |-> llmResponse.model,
     error |-> <<>>]

\* A plausible slip: the test for the zero-chunk path never succeeds.
HasNoChunksNever(chunks) == FALSE

\* chunks.length === 0
HasNoChunks(chunks) == Len(chunks) = 0

\* The rows the vector index can hold.
IndexRowPool ==
    { [chunkId |-> 1, documentId |-> 1, projectId |-> "p1",
       content |-> [text |-> "Auth  Flow uses JWT", len |-> 240],
       distance |-> 1, documentType |-> "txt", weight |-> 10],
      [chunkId |-> 2, documentId |-> 1, projectId |-> "p1",
       content |-> [text |-> "auth flow uses JWT ", len |-> 120],
       distance |-> 2, documentType |-> "openapi", weight |-> 12],
      [chunkId |-> 3, documentId |-> 2, projectId |-> "p2",
       content |-> [text |-> "Deployment diagram", len |-> 17000],
       distance |-> 3, documentType |-> "plantuml", weight |-> 10],
      [chunkId |-> 4, documentId |-> 2, projectId |-> "p1",
       content |-> [text |-> "Gateway timeouts", len |-> 90],
       distance |-> 5, documentType |-> "txt", weight |-> 10] }

MaxRows == 2

\* The indexes: up to MaxRows distinct rows, nearest first.
Indexes ==
    {rows \in SeqsUpTo(IndexRowPool, MaxRows) :
        \A i, j \in 1..Len(rows) : i # j => rows[i] # rows[j]}

\* query(question, options) entered: the query is analyzed and retrieval is awaited.
QueryStart ==
    /\ qpc \in {"idle", "done"}
    /\ \E q \in Questions, o \in QueryOptionSets :
         /\ question' = q
         /\ qopts' = o
    /\ qpc' = "retrieving"
    /\ collabFailure' = NoError
    /\ retrieved' = NoRetrieval
    /\ prompt' = NoPrompt
    /\ generateArgs' = NoGenerateArgs
    /\ qresult' = NoResult
    /\ processed' = NoProcessed
    /\ lastOp' = None
    /\ cpc' = "idle"
    /\ probes' = <<>>
    /\ calls' = <<>>
    /\ errors' = <<>>
    /\ idx' = 1
    /\ chatResult' = [kind |-> None, response |-> NoResponse, error |-> NoError]
    /\ chatMessages' = <<>>
    /\ UNCHANGED <<config, providers, isInitialized, llmPromise,
                   content, contextChunks, retrVars, soloVars>>

\* await this.retrieval.retrieve(analyzed, { projectId, limit: 10, threshold: 0.6 })
QueryRetrieve ==
    /\ qpc = "retrieving"
    /\ \E rows \in Indexes, failure \in RetrievalFailures \cup {NoError} :
         /\ collabFailure' = failure
         /\ retrieved' = Retrieve(Analyze(question),
                                  RetrievalOptions(qopts.projectId, QueryLimit, QueryThreshold),
                                  rows, failure)
    /\ qpc' = "retrieved"
    /\ UNCHANGED <<llmPromise, question, qopts, prompt, generateArgs, qresult>>
    /\ UNCHANGED <<chatVars, procVars, retrVars, soloVars>>

\* retrieve threw: the catch block of query.
QueryRetrievalFailed ==
    /\ qpc = "retrieved"
    /\ ~retrieved.ok
    /\ Catch(retrieved.thrown)
    /\ UNCHANGED <<llmPromise, question, qopts, collabFailure, retrieved, prompt, generateArgs>>
    /\ UNCHANGED <<chatVars, procVars, retrVars, soloVars>>

\* Step 3: no chunk came back.
QueryNoInfo ==
    /\ qpc = "retrieved"
    /\ retrieved.ok
    /\ HasNoChunks(retrieved.chunks)
    /\ \E ms \in ElapsedTimes :
         /\ processed' = ProcessNoInfoResponse(ms)
         /\ qresult' = NoInfoResult(ms)
    /\ lastOp' = "processNoInfoResponse"
    /\ qpc' = "done"
    /\ UNCHANGED <<llmPromise, question, qopts, collabFailure, retrieved, prompt, generateArgs,
                   content, contextChunks>>
    /\ UNCHANGED <<chatVars, retrVars, soloVars>>

\* Step 4: the prompt is built; then await this.llmPromise.
QueryBuildPrompt ==
    /\ qpc = "retrieved"
    /\ retrieved.ok
    /\ ~HasNoChunks(retrieved.chunks)
    /\ prompt' = BuildPrompt(Analyze(question), retrieved.chunks, qopts.format)
    /\ qpc' = "awaitLlm"
    /\ UNCHANGED <<llmPromise, question, qopts, collabFailure, retrieved, generateArgs, qresult>>
    /\ UNCHANGED <<chatVars, procVars, retrVars, soloVars>>

\* The promise of getLLMService() was rejected: the catch block of query.
QueryLlmRejected ==
    /\ qpc = "awaitLlm"
    /\ llmPromise = "rejected"
    /\ Catch(ErrorOf(<<"Cannot find module './providers/deepseek.provider'">>))
    /\ UNCHANGED <<llmPromise, question, qopts, collabFailure, retrieved, prompt, generateArgs>>
    /\ UNCHANGED <<chatVars, procVars, retrVars, soloVars>>

\* llm.generate(prompt, options): the prompt goes to chat as one user message.
GenerateMessages(userPrompt) == <<[role |-> "user", content |-> userPrompt]>>

\* Step 5: await llm.generate(prompt.userPrompt, llmOptions)
QueryGenerate ==
    /\ qpc = "awaitLlm"
    /\ llmPromise = "resolved"
    /\ generateArgs' = GenerateArguments(prompt)
    /\ ChatEnter(GenerateMessages(generateArgs'.prompt))
    /\ qpc' = "generating"
    /\ UNCHANGED <<llmPromise, question, qopts, collabFailure, retrieved, prompt, qresult>>
    /\ UNCHANGED <<procVars, retrVars, soloVars>>

\* Step 6: the response is processed and the result assembled.
QueryProcess ==
    /\ qpc = "generating"
    /\ cpc = "returned"
    /\ \E ms \in ElapsedTimes :
         processed' = ProcessResponse(chatResult.response, prompt.contextChunks, ms)
    /\ lastOp' = "process"
    /\ qresult' = SuccessResult(processed', chatResult.response, retrieved.chunks, qopts)
    /\ qpc' = "done"
    /\ UNCHANGED <<llmPromise, question, qopts, collabFailure, retrieved, prompt, generateArgs,
                   content, contextChunks>>
    /\ UNCHANGED <<chatVars, retrVars, soloVars>>

\* generate threw: the catch block of query.
QueryGenerationFailed ==
    /\ qpc = "generating"
    /\ cpc = "threw"
    /\ Catch(chatResult.error)
    /\ UNCHANGED <<llmPromise, question, qopts, collabFailure, retrieved, prompt, generateArgs>>
    /\ UNCHANGED <<chatVars, procVars, retrVars, soloVars>>

(***************************************************************************)
(* Specifications                                                          *)
(***************************************************************************)
IdleChat ==
    /\ cpc = "idle"
    /\ idx = 1
    /\ errors = <<>>
    /\ probes = <<>>
    /\ calls = <<>>
    /\ chatMessages = <<>>
    /\ chatResult = [kind |-> None, response |-> NoResponse, error |-> NoError]

IdleQuery ==
    /\ qpc = "idle"
    /\ question = None
    /\ collabFailure = NoError
    /\ qopts = [projectId |-> None, format |-> "markdown", includeSources |-> TRUE]
    /\ retrieved = NoRetrieval
    /\ prompt = NoPrompt
    /\ generateArgs = NoGenerateArgs
    /\ qresult = NoResult

IdleProcessor ==
    /\ content = <<>>
    /\ contextChunks = <<>>
    /\ processed = NoProcessed
    /\ lastOp = None

NoSession == [exists |-> FALSE, context |-> <<>>, messageCount |-> 0]

IdleSessions ==
    /\ smSession = NoSession
    /\ smBefore = <<>>
    /\ smAdded = <<>>

IdleStates ==
    /\ psRows = <<>>
    /\ psCalls = <<>>
    /\ psLog = <<>>

NoIngestCall == [content |-> None, failure |-> None, threw |-> FALSE, message |-> None]

IdleIngestion ==
    /\ igDocs = <<>>
    /\ igBefore = <<>>
    /\ igLast = NoIngestCall
    /\ igCount = 0

IdleStores == IdleSessions /\ IdleStates /\ IdleIngestion

IdleSolo ==
    /\ pbChunks = <<>>
    /\ procLog = <<>>
    /\ llmServiceInstance = FALSE
    /\ callers = <<>>
    /\ aqText = <<>>
    /\ aqResult = NoAnalysis
    /\ IdleStores

IdleRetrieval ==
    /\ rrInput = <<>>
    /\ rrOutput = <<>>
    /\ rrOp = None
    /\ rtCall = NoCall
    /\ rtResult = NoRetrieval

\* LLMService.chat called directly, on a service not yet initialized.
InitChat ==
    /\ config \in Configs
    /\ providers = <<>>
    /\ isInitialized = FALSE
    /\ llmPromise = "resolved"
    /\ IdleChat /\ IdleQuery /\ IdleProcessor /\ IdleRetrieval /\ IdleSolo

NextChat == ChatStart \/ Probe \/ Call \/ ChatFail

SpecChat == InitChat /\ [][NextChat]_vars

\* QueryEngine.query: the engine's constructor called getLLMService(), whose
\* promise resolved with the initialized service or was rejected by a failed
\* dynamic import of a provider module.
InitQuery ==
    /\ config \in Configs
    /\ llmPromise \in {"resolved"} \cup
                      (IF config.deepseekApiKey THEN {"rejected"} ELSE {})
    /\ providers = IF llmPromise = "resolved" THEN InitializedProviders(config)
                   ELSE <<"lmstudio">>
    /\ isInitialized = (llmPromise = "resolved")
    /\ IdleChat /\ IdleQuery /\ IdleProcessor /\ IdleRetrieval /\ IdleSolo

NextQuery ==
    \/ QueryStart
    \/ QueryRetrieve
    \/ QueryRetrievalFailed
    \/ QueryNoInfo
    \/ QueryBuildPrompt
    \/ QueryLlmRejected
    \/ QueryGenerate
    \/ Probe
    \/ Call
    \/ ChatFail
    \/ QueryProcess
    \/ QueryGenerationFailed

SpecQuery == InitQuery /\ [][NextQuery]_vars

\* ResponseProcessor called on its own: any answer text of up to MaxContentLen
\* tokens over Vocabulary against any list of up to MaxChunks context chunks.
MaxContentLen == 3
MaxChunks == 3

Vocabulary ==
    { Word("The login flow issues a token."),
      Cite(<<1>>), Cite(<<0, 2>>), Cite(<<3>>), Cite(<<5>>), Cite(<<0>>),
      Word("I don't have enough information"),
      Word("Typically"),
      Word("maybe") }

ChunkRelevances == {4, 7}

ChunkTexts == {"Auth  Flow uses JWT", "auth flow uses JWT ", "Deployment diagram"}

\* The chunk retrieve makes of the i-th search result, for a question of general intent.
MakeChunk(i, relevance, text) ==
    LET r == [chunkId |-> i, documentId |-> (i + 1) \div 2, projectId |-> "p1",
              content |-> [text |-> text, len |-> 150 * i],
              relevance |-> relevance, documentType |-> "txt", weight |-> 10]
    IN  ToChunk(r, i, CalculateScore(r, [intent |-> "general"]))

ProcessorChunkLists ==
    { [i \in 1..Len(rs) |-> MakeChunk(i, rs[i], "Deployment diagram")] :
        rs \in SeqsUpTo(ChunkRelevances, MaxChunks) }

RetrievalChunkLists ==
    { [i \in 1..Len(ps) |-> MakeChunk(i, ps[i][1], ps[i][2])] :
        ps \in SeqsUpTo(ChunkRelevances \X ChunkTexts, MaxChunks) }

InitProcess ==
    /\ config \in {[deepseekApiKey |-> FALSE, kimiApiKey |-> FALSE, openaiApiKey |-> FALSE]}
    /\ providers = <<>>
    /\ isInitialized = FALSE
    /\ llmPromise = "resolved"
    /\ IdleChat /\ IdleQuery /\ IdleRetrieval /\ IdleSolo
    /\ content \in SeqsUpTo(Vocabulary, MaxContentLen)
    /\ contextChunks \in ProcessorChunkLists
    /\ processed = NoProcessed
    /\ lastOp = None

\* responseProcessor.process(llmResponse, contextChunks, processingTimeMs)
Process ==
    /\ lastOp = None
    /\ \E ms \in ElapsedTimes, u \in TokenUsages :
         processed' = ProcessResponse([content |-> content, tokensUsed |-> u,
                                       model |-> ModelOf("lmstudio"), provider |-> "lmstudio"],
                                      contextChunks, ms)
    /\ lastOp' = "process"
    /\ UNCHANGED <<content, contextChunks, chatVars, queryVars, retrVars, soloVars>>

\* responseProcessor.processNoInfoResponse(processingTimeMs)
ProcessNoInfo ==
    /\ lastOp = None
    /\ \E ms \in ElapsedTimes : processed' = ProcessNoInfoResponse(ms)
    /\ lastOp' = "processNoInfoResponse"
    /\ UNCHANGED <<content, contextChunks, chatVars, queryVars, retrVars, soloVars>>

NextProcess == Process \/ ProcessNoInfo

SpecProcess == InitProcess /\ [][NextProcess]_vars

\* RetrievalService.rerank and deduplicate applied to any scored chunk list.
InitRetrieval ==
    /\ config \in {[deepseekApiKey |-> FALSE, kimiApiKey |-> FALSE, openaiApiKey |-> FALSE]}
    /\ providers = <<>>
    /\ isInitialized = FALSE
    /\ llmPromise = "resolved"
    /\ IdleChat /\ IdleQuery /\ IdleProcessor /\ IdleSolo
    /\ rrInput \in RetrievalChunkLists
    /\ rrOutput = <<>>
    /\ rrOp = None
    /\ rtCall = NoCall
    /\ rtResult = NoRetrieval

\* chunks = this.rerank(chunks, analyzedQuery)
ApplyRerank ==
    /\ rrOp = None
    /\ rrOutput' = Rerank(rrInput)
    /\ rrOp' = "rerank"
    /\ UNCHANGED <<rrInput, rtCall, rtResult, chatVars, queryVars, procVars, soloVars>>

\* chunks = this.deduplicate(chunks)
ApplyDeduplicate ==
    /\ rrOp = None
    /\ rrOutput' = Deduplicate(rrInput)
    /\ rrOp' = "deduplicate"
    /\ UNCHANGED <<rrInput, rtCall, rtResult, chatVars, queryVars, procVars, soloVars>>

NextRetrieval == ApplyRerank \/ ApplyDeduplicate

SpecRetrieval == InitRetrieval /\ [][NextRetrieval]_vars

\* RetrievalService.retrieve called on its own: any options, against any index of
\* up to MaxIndexRows distinct rows (nearest first).
MaxIndexRows == 3

RetrieveIndexes ==
    {rows \in SeqsUpTo(IndexRowPool, MaxIndexRows) :
        \A i, j \in 1..Len(rows) : i # j => rows[i] # rows[j]}

\* The options argument: documentTypes absent, empty or listing categories.
DocumentTypeOptions ==
    { [has |-> FALSE, types |-> <<>>],
      [has |-> TRUE,  types |-> <<>>],
      [has |-> TRUE,  types |-> <<"txt">>],
      [has |-> TRUE,  types |-> <<"openapi", "plantuml">>] }

RetrieveLimits == {1, 2, 10}

RetrieveOptionSets ==
    { [projectId |-> p, hasDocumentTypes |-> d.has, documentTypes |-> d.types,
       limit |-> l, threshold |-> 3, rerank |-> r, deduplicate |-> dd] :
        p \in {None, "p1"}, d \in DocumentTypeOptions, l \in RetrieveLimits,
        r \in BOOLEAN, dd \in BOOLEAN }

InitRetrieve ==
    /\ config \in {[deepseekApiKey |-> FALSE, kimiApiKey |-> FALSE, openaiApiKey |-> FALSE]}
    /\ providers = <<>>
    /\ isInitialized = FALSE
    /\ llmPromise = "resolved"
    /\ IdleChat /\ IdleQuery /\ IdleProcessor /\ IdleRetrieval /\ IdleSolo

\* retrieve(analyzedQuery, options) with every collaborator answering.
RetrieveCall ==
    /\ rtCall = NoCall
    /\ \E q \in Questions, o \in RetrieveOptionSets, rows \in RetrieveIndexes :
         /\ rtCall' = [query |-> Analyze(q), opts |-> o, rows |-> rows, failure |-> NoError]
         /\ rtResult' = Retrieve(Analyze(q), o, rows, NoError)
    /\ UNCHANGED <<rrInput, rrOutput, rrOp, chatVars, queryVars, procVars, soloVars>>

\* retrieve(analyzedQuery, options) with a collaborator throwing.
RetrieveCallFails ==
    /\ rtCall = NoCall
    /\ \E q \in Questions, o \in RetrieveOptionSets, rows \in RetrieveIndexes,
          failure \in RetrievalFailures :
         /\ rtCall' = [query |-> Analyze(q), opts |-> o, rows |-> rows, failure |-> failure]
         /\ rtResult' = Retrieve(Analyze(q), o, rows, failure)
    /\ UNCHANGED <<rrInput, rrOutput, rrOp, chatVars, queryVars, procVars, soloVars>>

NextRetrieve == RetrieveCall \/ RetrieveCallFails

SpecRetrieve == InitRetrieve /\ [][NextRetrieve]_vars

\* PromptBuilder.build called on its own: any list of up to MaxPromptChunks
\* passages whose contents run from a paragraph to more than the whole budget.
MaxPromptChunks == 3

ContentLengths == {400, 8000, 17000}

PromptChunkLists ==
    { [i \in 1..Len(ls) |->
          [MakeChunk(i, 7, "Deployment diagram") EXCEPT
               !.content = [text |-> "Deployment diagram", len |-> ls[i]]]] :
        ls \in SeqsUpTo(ContentLengths, MaxPromptChunks) }

ResponseFormats == {"markdown", "json"}

InitPrompt ==
    /\ config \in {[deepseekApiKey |-> FALSE, kimiApiKey |-> FALSE, openaiApiKey |-> FALSE]}
    /\ providers = <<>>
    /\ isInitialized = FALSE
    /\ llmPromise = "resolved"
    /\ IdleChat /\ IdleQuery /\ IdleProcessor /\ IdleRetrieval /\ IdleSolo

\* promptBuilder.build(query, chunks, format)
Build ==
    /\ prompt = NoPrompt
    /\ \E q \in Questions, chunks \in PromptChunkLists, format \in ResponseFormats :
         /\ pbChunks' = chunks
         /\ prompt' = BuildPrompt(Analyze(q), chunks, format)
    /\ UNCHANGED <<qpc, llmPromise, question, qopts, collabFailure, retrieved, generateArgs,
                   qresult>>
    /\ UNCHANGED <<chatVars, procVars, retrVars, procLog, initVars, analyzeVars, storeVars>>

NextPrompt == Build

SpecPrompt == InitPrompt /\ [][NextPrompt]_vars

\* Concurrent users of the LLM service: each caller awaits getLLMService() and
\* then chat() on the service it got; callers interleave at every await.
NumCallers == 2

Callers == 1..NumCallers

NewCaller == [pc |-> "start", init |-> "none", idx |-> 1, iterated |-> <<>>]

InitConcurrent ==
    /\ config \in Configs
    /\ providers = <<>>
    /\ isInitialized = FALSE
    /\ llmPromise = "resolved"
    /\ IdleChat /\ IdleQuery /\ IdleProcessor /\ IdleRetrieval
    /\ pbChunks = <<>>
    /\ procLog = <<>>
    /\ llmServiceInstance = FALSE
    /\ callers = [c \in Callers |-> NewCaller]
    /\ aqText = <<>>
    /\ aqResult = NoAnalysis
    /\ IdleStores

\* What no step of a concurrent caller touches.
OthersUnchanged ==
    /\ UNCHANGED <<config, cpc, idx, errors, probes, calls, chatMessages, chatResult>>
    /\ UNCHANGED <<queryVars, procVars, retrVars, pbChunks, procLog, analyzeVars, storeVars>>

\* getLLMService(): the singleton exists already and is returned as it is.
GetExistingService(c) ==
    /\ callers[c].pc = "start"
    /\ llmServiceInstance
    /\ callers' = [callers EXCEPT ![c].pc = "gotService"]
    /\ UNCHANGED <<llmServiceInstance, providers, isInitialized>>
    /\ OthersUnchanged

\* getLLMService(): no singleton yet; it is created and initialize() is awaited.
CreateService(c) ==
    /\ callers[c].pc = "start"
    /\ ~llmServiceInstance
    /\ llmServiceInstance' = TRUE
    /\ LET r == InitializeEntry
       IN  /\ providers' = r.providers
           /\ isInitialized' = r.isInitialized
           /\ callers' = [callers EXCEPT ![c].pc = "getAwaitsInit", ![c].init = r.at]
    /\ OthersUnchanged

\* llm.chat(...): await this.initialize()
ChatCallsInitialize(c) ==
    /\ callers[c].pc = "gotService"
    /\ LET r == InitializeEntry
       IN  /\ providers' = r.providers
           /\ isInitialized' = r.isInitialized
           /\ callers' = [callers EXCEPT ![c].pc = "chatAwaitsInit", ![c].init = r.at]
    /\ UNCHANGED llmServiceInstance
    /\ OthersUnchanged

\* The dynamic import a caller's initialize() awaits has resolved.
ImportResolved(c) ==
    /\ callers[c].init \in {"awaitDeepseek", "awaitKimi"}
    /\ LET r == InitializeResume(callers[c].init)
       IN  /\ providers' = r.providers
           /\ isInitialized' = r.isInitialized
           /\ callers' = [callers EXCEPT ![c].init = r.at]
    /\ UNCHANGED llmServiceInstance
    /\ OthersUnchanged

\* initialize() has returned to the function that awaited it.
InitializeReturns(c) ==
    /\ callers[c].init = "finished"
    /\ callers' = [callers EXCEPT
                      ![c].init = "none",
                      ![c].pc = IF callers[c].pc = "getAwaitsInit" THEN "gotService" ELSE "loop"]
    /\ UNCHANGED <<llmServiceInstance, providers, isInitialized>>
    /\ OthersUnchanged

\* One turn of for (const provider of this.providers): the provider is skipped
\* or fails and the loop goes on, or it answers and chat returns.
ChatIterates(c) ==
    /\ callers[c].pc = "loop"
    /\ callers[c].idx <= Len(providers)
    /\ \E answered \in BOOLEAN :
         callers' = [callers EXCEPT
                       ![c].iterated = Append(@, providers[callers[c].idx]),
                       ![c].idx = @ + 1,
                       ![c].pc = IF answered THEN "returned" ELSE "loop"]
    /\ UNCHANGED <<llmServiceInstance, providers, isInitialized>>
    /\ OthersUnchanged

\* The loop ran off the end of this.providers: chat throws the aggregate error.
ChatExhausts(c) ==
    /\ callers[c].pc = "loop"
    /\ callers[c].idx > Len(providers)
    /\ callers' = [callers EXCEPT ![c].pc = "threw"]
    /\ UNCHANGED <<llmServiceInstance, providers, isInitialized>>
    /\ OthersUnchanged

NextConcurrent ==
    \/ \E c \in Callers : GetExistingService(c)
    \/ \E c \in Callers : CreateService(c)
    \/ \E c \in Callers : ChatCallsInitialize(c)
    \/ \E c \in Callers : ImportResolved(c)
    \/ \E c \in Callers : InitializeReturns(c)
    \/ \E c \in Callers : ChatIterates(c)
    \/ \E c \in Callers : ChatExhausts(c)

SpecConcurrent == InitConcurrent /\ [][NextConcurrent]_vars

\* QueryAnalyzer.analyze called on its own: any query of up to MaxWords words.
MaxWords == 3

QueryWords ==
    {"What", "is", "endpoint", "system", "example", "token", "compare", "?", "(the)", "a.b"}

InitAnalyze ==
    /\ config \in {[deepseekApiKey |-> FALSE, kimiApiKey |-> FALSE, openaiApiKey |-> FALSE]}
    /\ providers = <<>>
    /\ isInitialized = FALSE
    /\ llmPromise = "resolved"
    /\ IdleChat /\ IdleQuery /\ IdleProcessor /\ IdleRetrieval
    /\ pbChunks = <<>>
    /\ procLog = <<>>
    /\ llmServiceInstance = FALSE
    /\ callers = <<>>
    /\ aqText \in SeqsUpTo(QueryWords, MaxWords)
    /\ aqResult = NoAnalysis
    /\ IdleStores

\* analyzer.analyze(query)
AnalyzeCall ==
    /\ aqResult = NoAnalysis
    /\ aqResult' = AnalyzeWords(aqText)
    /\ UNCHANGED <<aqText, chatVars, queryVars, procVars, retrVars, pbChunks, procLog, initVars,
                   storeVars>>

NextAnalyze == AnalyzeCall

SpecAnalyze == InitAnalyze /\ [][NextAnalyze]_vars

\* One ResponseProcessor called up to MaxProcessCalls times in a row.
MaxProcessCalls == 3

RepeatResponses ==
    { [content |-> c, tokensUsed |-> 57, model |-> ModelOf("lmstudio"), provider |-> "lmstudio"] :
        c \in ReplyContents }

RepeatChunkLists ==
    { <<MakeChunk(1, 7, "Deployment diagram")>>,
      <<MakeChunk(1, 7, "Deployment diagram"), MakeChunk(2, 4, "Deployment diagram")>> }

RepeatElapsedTimes == {35, 80}

InitProcessCalls ==
    /\ config \in {[deepseekApiKey |-> FALSE, kimiApiKey |-> FALSE, openaiApiKey |-> FALSE]}
    /\ providers = <<>>
    /\ isInitialized = FALSE
    /\ llmPromise = "resolved"
    /\ IdleChat /\ IdleQuery /\ IdleProcessor /\ IdleRetrieval /\ IdleSolo

\* responseProcessor.process(llmResponse, contextChunks, processingTimeMs), again
ProcessCall ==
    /\ Len(procLog) < MaxProcessCalls
    /\ \E r \in RepeatResponses, chunks \in RepeatChunkLists, ms \in RepeatElapsedTimes :
         /\ content' = r.content
         /\ contextChunks' = chunks
         /\ processed' = ProcessResponse(r, chunks, ms)
         /\ procLog' = Append(procLog, [llmResponse |-> r, contextChunks |-> chunks,
                                        processingTimeMs |-> ms, result |-> processed'])
    /\ lastOp' = "process"
    /\ UNCHANGED <<chatVars, queryVars, retrVars, pbChunks, initVars, analyzeVars, storeVars>>

NextProcessCalls == ProcessCall

SpecProcessCalls == InitProcessCalls /\ [][NextProcessCalls]_vars

(***************************************************************************)
(* Properties                                                              *)
(***************************************************************************)
\* What the current chat call has observed of the provider at position j.
ProbedAt(j) == \E i \in 1..Len(probes) : probes[i][1] = providers[j]
CalledAt(j) == \E i \in 1..Len(calls) : calls[i].provider = providers[j]
UnavailableAt(j) == \E i \in 1..Len(probes) : probes[i] = <<providers[j], FALSE>>
FailedAt(j) ==
    \E i \in 1..Len(calls) : calls[i].provider = providers[j] /\ ~calls[i].outcome.ok
SucceededAt(j) ==
    /\ \E i \in 1..Len(probes) : probes[i] = <<providers[j], TRUE>>
    /\ \E i \in 1..Len(calls) : calls[i].provider = providers[j] /\ calls[i].outcome.ok

\* The positions of the providers found available and whose chat call succeeded.
GoodPositions == {j \in 1..Len(providers) : SucceededAt(j)}
FirstGood == CHOOSE k \in GoodPositions : \A j \in GoodPositions : k <= j
ResponseAt(k) ==
    (CHOOSE i \in 1..Len(calls) : calls[i].provider = providers[k] /\ calls[i].outcome.ok)

AllProvidersExhausted ==
    \A j \in 1..Len(providers) : UnavailableAt(j) \/ FailedAt(j)

\* C1: when provider k is the first provider that is available and whose chat
\* call succeeds, chat has returned exactly that provider's response, every
\* provider before k was unavailable or failed, and no provider after k was
\* probed or called.
C1_FirstGoodProviderWins ==
    GoodPositions # {} =>
        /\ cpc = "returned"
        /\ chatResult.kind = "response"
        /\ chatResult.response = calls[ResponseAt(FirstGood)].outcome.response
        /\ chatResult.response.provider = providers[FirstGood]
        /\ \A j \in 1..(FirstGood - 1) : UnavailableAt(j) \/ FailedAt(j)
        /\ \A j \in (FirstGood + 1)..Len(providers) : ~ProbedAt(j) /\ ~CalledAt(j)

\* C1 witness: a fallback provider answered after an earlier one failed, and a
\* later provider is configured.
C1_Witness ==
    /\ cpc = "returned"
    /\ GoodPositions # {}
    /\ FirstGood >= 2
    /\ FirstGood < Len(providers)
    /\ \E j \in 1..(FirstGood - 1) : FailedAt(j)

\* C2 (as stated): when every configured provider was unavailable or failed,
\* the error chat throws names every configured provider in its message.
C2_AggregateNamesEveryProvider ==
    (cpc = "threw" /\ AllProvidersExhausted) =>
        \A j \in 1..Len(providers) : providers[j] \in Range(chatResult.error.message)

\* Whether a stage of the query in progress raised an error.
RetrievalRaised == qpc \in {"retrieved", "done", "rejected"} /\ collabFailure # NoError
LlmServiceRaised ==
    /\ qpc \in {"done", "rejected"}
    /\ retrieved.ok /\ retrieved.chunks # <<>>
    /\ llmPromise = "rejected"
GenerationRaised == qpc \in {"generating", "done", "rejected"} /\ cpc = "threw"
StageRaised == RetrievalRaised \/ LlmServiceRaised \/ GenerationRaised

NonEmptyText(msg) == \E i \in 1..Len(msg) : msg[i] # ""

\* C3: query never rejects, and a query in which a stage raised an error
\* resolves to success=false, empty answer, no sources, confidence
\* 'insufficient' and a non-empty error string.
C3_FailuresBecomeResults ==
    /\ qpc # "rejected"
    /\ (qpc = "done" /\ StageRaised) =>
           /\ qresult.success = FALSE
           /\ qresult.answer = <<>>
           /\ qresult.sources = <<>>
           /\ qresult.confidence = "insufficient"
           /\ NonEmptyText(qresult.error)

\* C3 witness: a query ended after every provider was skipped or failed, one of
\* them by a thrown error.
C3_Witness ==
    /\ qpc = "done"
    /\ GenerationRaised
    /\ \E j \in 1..Len(providers) : FailedAt(j)
    /\ \E j \in 1..Len(providers) : UnavailableAt(j)
    /\ qresult.success = FALSE

\* C4: when retrieval succeeds with zero passages, the query ends with
\* success=true, confidence 'insufficient', no sources and the canned guidance
\* answer, and no provider is probed or called during that query.
C4_ZeroPassagesBypassGeneration ==
    (retrieved.ok /\ retrieved.chunks = <<>> /\ qpc # "retrieving") =>
        /\ probes = <<>>
        /\ calls = <<>>
        /\ qpc \in {"retrieved", "done"}
        /\ qpc = "done" =>
               /\ qresult.success = TRUE
               /\ qresult.confidence = "insufficient"
               /\ qresult.sources = <<>>
               /\ qresult.answer = NoInfoAnswer
               /\ qresult.error = <<>>

\* C4 witness: the scenario question ended on the zero-passage path.
C4_Witness ==
    /\ qpc = "done"
    /\ question = "What is the authentication flow?"
    /\ retrieved.ok
    /\ retrieved.chunks = <<>>
    /\ qresult.success

C6_RetrievalFailurePropagates ==
    RetrievalRaised =>
        /\ retrieved.ok = FALSE
        /\ retrieved.thrown = collabFailure
        /\ qpc = "done" =>
               /\ qresult.success = FALSE
               /\ qresult.answer # NoInfoAnswer
               /\ qresult.error = QueryErrorMessage(collabFailure)

\* C6 witness: the vector search threw and the query ended as a failure.
C6_Witness ==
    /\ qpc = "done"
    /\ collabFailure = ErrorOf(<<"Table not initialized">>)
    /\ qresult.success = FALSE

\* The marker numbers an answer text carries, and those among them that name a
\* position of the chunk list.
MarkerNumbers(text) ==
    {ParseInt(text[i].d) : i \in {j \in 1..Len(text) : text[j].t = "[source:" /\ text[j].d # <<>>}}
ResolvedNumbers(text, chunks) == MarkerNumbers(text) \cap (1..Len(chunks))

AdmitsNoInformation(text) ==
    \E i \in 1..Len(text) :
        ToLowerCase(text[i].t) \in
            { "i don't have enough information", "no relevant information",
              "not found in the documentation" }

\* C7: the confidence process returns is 'insufficient' exactly when no
\* citation was resolved or the answer admits it has no information.
C7_InsufficientIff ==
    lastOp = "process" =>
        (processed.confidence = "insufficient"
            <=> (ResolvedNumbers(content, contextChunks) = {} \/ AdmitsNoInformation(content)))

\* C7 witness: an answer without any marker, over chunks that all score above
\* 0.8, was processed and rated insufficient.
C7_Witness ==
    /\ lastOp = "process"
    /\ content # <<>>
    /\ MarkerNumbers(content) = {}
    /\ ~AdmitsNoInformation(content)
    /\ Len(contextChunks) >= 2
    /\ \A i \in 1..Len(contextChunks) : contextChunks[i].score > 4000
    /\ processed.confidence = "insufficient"

UngroundedPhrasings ==
    { "according to my knowledge", "as an ai", "typically", "usually", "generally",
      "in my opinion" }

\* C8 (as stated): every ProcessedResponse of process and of
\* processNoInfoResponse is marked grounded only if it has at least one
\* resolved citation and its answer holds no ungrounded-knowledge phrasing.
C8_GroundedOnlyWithCitation ==
    (lastOp # None /\ processed.metadata.isGrounded) =>
        /\ Len(processed.sources) >= 1
        /\ \A i \in 1..Len(processed.answer) :
               ToLowerCase(processed.answer[i].t) \notin UngroundedPhrasings

\* C9: the citations of process are one per distinct marker number that names a
\* position of the chunk list, ascending, each taken from the chunk at that
\* position; other markers give nothing.
C9_CitationsResolveByPosition ==
    lastOp = "process" =>
        LET cits == processed.sources
        IN  /\ {cits[i].number : i \in 1..Len(cits)} = ResolvedNumbers(content, contextChunks)
            /\ Len(cits) = Cardinality(ResolvedNumbers(content, contextChunks))
            /\ \A i \in 1..(Len(cits) - 1) : cits[i].number < cits[i + 1].number
            /\ \A i \in 1..Len(cits) :
                   /\ cits[i].chunkId = contextChunks[cits[i].number].chunkId
                   /\ cits[i].documentId = contextChunks[cits[i].number].documentId
                   /\ cits[i].relevance = contextChunks[cits[i].number].score

\* C9 witness: markers 5, 02 and 1, in that order, over three chunks: two citations.
C9_Witness ==
    /\ lastOp = "process"
    /\ content = <<Cite(<<5>>), Cite(<<0, 2>>), Cite(<<1>>)>>
    /\ Len(contextChunks) = 3
    /\ Len(processed.sources) = 2
    /\ processed.sources[1].number = 1

SameButRank(a, b) == [a EXCEPT !.rank = 0] = [b EXCEPT !.rank = 0]
InputPosition(chunk) == CHOOSE i \in 1..Len(rrInput) : rrInput[i].chunkId = chunk.chunkId

\* C10: reranking gives ranks exactly 1..N, scores non-increasing in rank
\* order, and exactly the input passages, equal scores in their input order.
C10_RerankOrdersAndKeeps ==
    rrOp = "rerank" =>
        LET N == Len(rrOutput)
        IN  /\ N = Len(rrInput)
            /\ {rrOutput[i].rank : i \in 1..N} = 1..N
            /\ \A i, j \in 1..N :
                   rrOutput[i].rank < rrOutput[j].rank => rrOutput[i].score >= rrOutput[j].score
            /\ \A i \in 1..N : \E j \in 1..N : SameButRank(rrInput[i], rrOutput[j])
            /\ \A i, j \in 1..N :
                   (rrOutput[i].rank < rrOutput[j].rank /\ rrOutput[i].score = rrOutput[j].score)
                       => InputPosition(rrOutput[i]) < InputPosition(rrOutput[j])

\* C10 witness: a list whose lowest score came first, followed by two equal
\* higher scores, was reranked.
C10_Witness ==
    /\ rrOp = "rerank"
    /\ Len(rrInput) = 3
    /\ rrInput[1].score < rrInput[2].score
    /\ rrInput[2].score = rrInput[3].score
    /\ rrOutput[3].chunkId = rrInput[1].chunkId

\* C11: every list retrieve returns with reranking enabled carries the ranks
\* 1..N, each once, also after deduplication removed passages and after the
\* list was cut to limit.
C11_RanksDenseAfterRetrieve ==
    (rtResult.ok /\ rtCall.opts.rerank) =>
        LET chunks == rtResult.chunks
        IN  /\ \A i, j \in 1..Len(chunks) : i # j => chunks[i].rank # chunks[j].rank
            /\ {chunks[i].rank : i \in 1..Len(chunks)} = 1..Len(chunks)

FingerprintOf(chunk) == CreateFingerprint(chunk.content)
GroupOf(chunks, f) == {i \in 1..Len(chunks) : FingerprintOf(chunks[i]) = f}
MaxScoreOf(chunks, f) ==
    CHOOSE m \in {chunks[i].score : i \in GroupOf(chunks, f)} :
        \A i \in GroupOf(chunks, f) : chunks[i].score <= m

\* C12: whatever the order of the list, deduplication leaves exactly one
\* survivor for each fingerprint of the input, that survivor is a passage of
\* the group carrying the group's maximum score, and no two survivors share a
\* fingerprint.
C12_OneSurvivorPerFingerprint ==
    (rrOp = "deduplicate") =>
        /\ \A i \in 1..Len(rrInput) :
              Cardinality(GroupOf(rrOutput, FingerprintOf(rrInput[i]))) = 1
        /\ \A j \in 1..Len(rrOutput) :
              /\ GroupOf(rrInput, FingerprintOf(rrOutput[j])) # {}
              /\ rrOutput[j].score = MaxScoreOf(rrInput, FingerprintOf(rrOutput[j]))
        /\ \A j, k \in 1..Len(rrOutput) :
              j # k => FingerprintOf(rrOutput[j]) # FingerprintOf(rrOutput[k])

\* Deduplication met a group whose best passage is not its first, next to a
\* passage of another group.
C12_Witness ==
    /\ rrOp = "deduplicate"
    /\ Len(rrOutput) = 2
    /\ \E i, j \in 1..Len(rrInput) :
          /\ i < j
          /\ FingerprintOf(rrInput[i]) = FingerprintOf(rrInput[j])
          /\ rrInput[i].score < rrInput[j].score
          /\ \E k \in 1..2 : rrOutput[k].chunkId = rrInput[j].chunkId

\* C13: of two passages with the same fingerprint and different scores, in
\* either input order, deduplication keeps the higher-scoring one and its
\* duplicateOf is the identifier of the lower-scoring one.
C13_SurvivorPointsAtDuplicate ==
    (/\ rrOp = "deduplicate"
     /\ Len(rrInput) = 2
     /\ FingerprintOf(rrInput[1]) = FingerprintOf(rrInput[2])
     /\ rrInput[1].score # rrInput[2].score) =>
        LET hi == IF rrInput[1].score > rrInput[2].score THEN rrInput[1] ELSE rrInput[2]
            lo == IF rrInput[1].score > rrInput[2].score THEN rrInput[2] ELSE rrInput[1]
        IN  /\ Len(rrOutput) = 1
            /\ rrOutput[1].chunkId = hi.chunkId
            /\ rrOutput[1].score = hi.score
            /\ rrOutput[1].duplicateOf = lo.chunkId
            /\ rrOutput[1].duplicateOf # rrOutput[1].chunkId

\* C14: build puts the first passage of a non-empty list into contextChunks,
\* whatever its size.
C14_FirstPassageAlwaysIncluded ==
    (prompt # NoPrompt /\ pbChunks # <<>>) =>
        /\ Len(prompt.contextChunks) >= 1
        /\ prompt.contextChunks[1] = pbChunks[1]

\* A prompt was built from a list whose first passage alone is over the budget.
C14_Witness ==
    /\ prompt # NoPrompt
    /\ Len(pbChunks) >= 2
    /\ EstimateTokens(pbChunks[1].content.len) > MAX_CONTEXT_TOKENS
    /\ prompt.contextChunks = <<pbChunks[1]>>

\* C15: a prompt built with two or more passages has estimatedTokens within
\* the context budget.
C15_EstimateWithinBudget ==
    (prompt # NoPrompt /\ Len(prompt.contextChunks) >= 2) =>
        prompt.estimatedTokens <= MAX_CONTEXT_TOKENS

SameArguments(a, b) ==
    /\ a.llmResponse = b.llmResponse
    /\ a.contextChunks = b.contextChunks
    /\ a.processingTimeMs = b.processingTimeMs

StageNames ==
    {"lmstudio", "deepseek", "kimi", "openai", "embedder", "vector store", "retrieval",
     "llm", "prompt builder", "response processor"}

\* C17: the error string of every failed QueryResult includes the question
\* that was asked and the name of the collaborator or provider that failed.
C17_ErrorNamesQuestionAndStage ==
    (qpc = "done" /\ ~qresult.success) =>
        /\ \E i \in 1..Len(qresult.error) : qresult.error[i] = question
        /\ \E i \in 1..Len(qresult.error) : qresult.error[i] \in StageNames

IsPrefixOf(s, t) == Len(s) <= Len(t) /\ s = SubSeq(t, 1, Len(s))

\* C18: under every interleaving of concurrent getLLMService, initialize and
\* chat calls, no provider is registered twice, and each chat call iterates the
\* provider list a call running alone iterates: a prefix of the configured
\* chain when a provider answers, the whole chain when none does.
C18_ConcurrentCallersSeeOneChain ==
    /\ \A i, j \in 1..Len(providers) : i # j => providers[i] # providers[j]
    /\ \A c \in DOMAIN callers :
          /\ IsPrefixOf(callers[c].iterated, InitializedProviders(config))
          /\ callers[c].pc = "threw" => callers[c].iterated = InitializedProviders(config)

AllInScope(chunks, P, D) ==
    \A i \in 1..Len(chunks) :
        chunks[i].projectId = P /\ chunks[i].documentType \in Range(D)

\* C19 as stated: retrieve given a scope identifier P and an allowed category
\* list D returns only passages of project P whose category is in D.
C19_OnlyScopeAndCategories ==
    (rtResult.ok /\ rtCall.opts.projectId # None /\ rtCall.opts.hasDocumentTypes) =>
        AllInScope(rtResult.chunks, rtCall.opts.projectId, rtCall.opts.documentTypes)

\* C19, amended: retrieve given a scope identifier P and a non-empty allowed
\* category list D returns only passages of project P whose category is in D;
\* an empty list D restricts nothing.
C19_OnlyScopeAndListedCategories ==
    (/\ rtResult.ok
     /\ rtCall.opts.projectId # None
     /\ rtCall.opts.hasDocumentTypes
     /\ rtCall.opts.documentTypes # <<>>) =>
        AllInScope(rtResult.chunks, rtCall.opts.projectId, rtCall.opts.documentTypes)

\* A scoped retrieve returned a passage while the index also held, among its
\* nearest rows, a row of another project and a row of a category not allowed.
C19_Witness ==
    /\ rtResult.ok
    /\ rtCall.opts.projectId = "p1"
    /\ rtCall.opts.hasDocumentTypes
    /\ rtCall.opts.documentTypes = <<"txt">>
    /\ rtResult.chunks # <<>>
    /\ \E i \in 1..Min(2 * rtCall.opts.limit, Len(rtCall.rows)) :
          rtCall.rows[i].projectId # "p1"
    /\ \E i \in 1..Min(2 * rtCall.opts.limit, Len(rtCall.rows)) :
          rtCall.rows[i].projectId = "p1" /\ rtCall.rows[i].documentType # "txt"

IntentOrder ==
    <<"definition", "how_to", "comparison", "troubleshoot", "architecture",
      "api_reference", "example", "general">>

\* Some pattern listed for the intent matches the text.
IntentMatches(intent, text) ==
    \E e \in Range(IntentPatterns) :
        /\ e.intent = intent
        /\ \E j \in 1..Len(e.patterns) : PatternMatches(e.patterns[j], text)

SpecificMatches(text) == {k \in 1..7 : IntentMatches(IntentOrder[k], text)}

\* C20: analyze returns an intent of the closed set: the first of definition,
\* how_to, comparison, troubleshoot, architecture, api_reference, example that
\* has a pattern matching the normalized text, and general exactly when none
\* of them has.
C20_FirstMatchingIntent ==
    (aqResult # NoAnalysis) =>
        LET text == aqResult.normalized
        IN  /\ aqResult.intent \in Range(IntentOrder)
            /\ (aqResult.intent = "general") <=> (SpecificMatches(text) = {})
            /\ SpecificMatches(text) # {} =>
                 /\ aqResult.intent \in {IntentOrder[k] : k \in SpecificMatches(text)}
                 /\ \A k \in SpecificMatches(text) :
                      \E m \in 1..k : IntentOrder[m] = aqResult.intent

\* A query matching patterns of two intents was analyzed, and so was one that
\* matches no specific intent.
C20_Witness ==
    /\ aqResult # NoAnalysis
    /\ aqText = <<"What", "is", "endpoint">>
    /\ Cardinality(SpecificMatches(aqResult.normalized)) = 2
    /\ aqResult.intent = "definition"

\* ---------------------------------------------------------------------------
\* Confidence point table
\* ---------------------------------------------------------------------------

HedgingPhrases ==
    { "might be", "could be", "possibly", "perhaps", "maybe", "i'm not sure",
      "unclear", "ambiguous", "appears to" }

Hedged(text) == \E i \in 1..Len(text) : ToLowerCase(text[i].t) \in HedgingPhrases

RECURSIVE CitedScoreSum(_, _)
CitedScoreSum(numbers, chunks) ==
    IF numbers = {} THEN 0
    ELSE LET k == CHOOSE x \in numbers : TRUE
         IN  chunks[k].score + CitedScoreSum(numbers \ {k}, chunks)

\* The point total of the table, in tenths, for n citations whose relevances
\* (in units of 1/5000) add up to sum.
PointTotal(n, sum, hedged) ==
    (IF n >= 1 THEN 3 ELSE 0)
    + (IF n >= 1 /\ sum > 4000 * n THEN 3 ELSE IF n >= 1 /\ sum > 3000 * n THEN 2 ELSE 0)
    + (IF n >= 3 THEN 2 ELSE IF n >= 2 THEN 1 ELSE 0)
    + (IF hedged THEN 0 ELSE 2)

LevelOfTotal(total) ==
    IF total >= 8 THEN "high"
    ELSE IF total >= 5 THEN "medium"
    ELSE IF total >= 3 THEN "low"
    ELSE "insufficient"

\* C21: for an answer without an insufficiency admission, the confidence of
\* process is the level of the point total: +0.3 for a citation, +0.3 for a
\* mean cited relevance above 0.8 or else +0.2 above 0.6, +0.2 for three
\* citations or else +0.1 for two, +0.2 without a hedging phrase; 0.8 is high,
\* 0.5 medium, 0.3 low, less is insufficient.
C21_ConfidenceFollowsPointTable ==
    (lastOp = "process" /\ ~AdmitsNoInformation(content)) =>
        LET cited == ResolvedNumbers(content, contextChunks)
        IN  processed.confidence =
                LevelOfTotal(PointTotal(Cardinality(cited),
                                        CitedScoreSum(cited, contextChunks),
                                        Hedged(content)))

\* C21 witness: two citations whose mean relevance lies between 0.6 and 0.8,
\* in a hedged answer, were rated medium (0.3 + 0.2 + 0.1).
C21_Witness ==
    /\ lastOp = "process"
    /\ content = <<Cite(<<1>>), Cite(<<0, 2>>), Word("maybe")>>
    /\ Len(contextChunks) = 2
    /\ contextChunks[1].score + contextChunks[2].score > 6000
    /\ contextChunks[1].score + contextChunks[2].score <= 8000
    /\ processed.confidence = "medium"

\* C21 second case: three citations of mean relevance exactly 0.6 earn no
\* relevance points and are rated medium (0.3 + 0.2 + 0.2).
C21_MeanAtLowerLimit ==
    /\ lastOp = "process"
    /\ Cardinality(ResolvedNumbers(content, contextChunks)) = 3
    /\ CitedScoreSum(ResolvedNumbers(content, contextChunks), contextChunks) = 9000
    /\ processed.confidence = "medium"

\* ---------------------------------------------------------------------------
\* Provider order within one chat call
\* ---------------------------------------------------------------------------

\* Provider i of the list was given up in this call: its probe answered false
\* or its chat threw.
GivenUp(i) ==
    \/ (i <= Len(probes) /\ probes[i][1] = providers[i] /\ ~probes[i][2])
    \/ \E k \in 1..Len(calls) : calls[k].provider = providers[i] /\ ~calls[k].outcome.ok

\* A step that probes one more provider: it is the next of the list, nothing
\* is called in the same step, and every provider before it was given up.
ProbeInOrder ==
    (Len(probes') = Len(probes) + 1) =>
        LET j == Len(probes')
        IN  /\ SubSeq(probes', 1, Len(probes)) = probes
            /\ j <= Len(providers)
            /\ probes'[j][1] = providers[j]
            /\ calls' = calls
            /\ \A i \in 1..(j - 1) : GivenUp(i)

\* A step that calls one more provider: the latest probe of this call was of
\* that provider and answered true, and the provider was not called before.
CallAfterOwnProbe ==
    (Len(calls') = Len(calls) + 1) =>
        LET p == calls'[Len(calls')].provider
        IN  /\ SubSeq(calls', 1, Len(calls)) = calls
            /\ probes' = probes
            /\ probes # <<>>
            /\ probes[Len(probes)] = <<p, TRUE>>
            /\ \A k \in 1..Len(calls) : calls[k].provider # p

\* C22: within one chat call the providers are handled one at a time in list
\* order: chat is invoked on a provider only after its own isAvailable answered
\* true in that call, an unavailable provider is never called, and provider j
\* is probed only after every provider before it was unavailable or failed.
C22_ProvidersHandledInOrder == [][ProbeInOrder /\ CallAfterOwnProbe]_vars

\* C22 witness: the first provider was unavailable, the second was called and
\* failed, the third was probed, called and answered.
C22_Witness ==
    /\ cpc = "returned"
    /\ Len(providers) >= 3
    /\ Len(probes) = 3
    /\ probes[1] = <<providers[1], FALSE>>
    /\ probes[2] = <<providers[2], TRUE>>
    /\ probes[3] = <<providers[3], TRUE>>
    /\ Len(calls) = 2
    /\ calls[1].provider = providers[2] /\ ~calls[1].outcome.ok
    /\ calls[2].provider = providers[3] /\ calls[2].outcome.ok

\* ---------------------------------------------------------------------------
\* Passage selection is a prefix
\* ---------------------------------------------------------------------------

\* The estimated tokens of the first k passages handed to build.
RECURSIVE PrefixTokens(_)
PrefixTokens(k) ==
    IF k = 0 THEN 0 ELSE PrefixTokens(k - 1) + EstimateTokens(pbChunks[k].content.len)

\* Passage j, not the first, would push the running total over the budget.
OverBudgetAt(j) == j >= 2 /\ PrefixTokens(j) > MAX_CONTEXT_TOKENS

\* C23: the passages build includes are a prefix of the input list: selection
\* stops at the first passage, other than the very first, that would push the
\* running total over the budget, and no later passage is admitted.
C23_SelectionIsPrefixToFirstOverflow ==
    prompt # NoPrompt =>
        LET k == Len(prompt.contextChunks)
        IN  /\ k <= Len(pbChunks)
            /\ prompt.contextChunks = SubSeq(pbChunks, 1, k)
            /\ \A j \in 1..k : ~OverBudgetAt(j)
            /\ k < Len(pbChunks) => OverBudgetAt(k + 1)

\* C23 witness: the second passage overflowed the budget and the third, which
\* would have fitted after the first, was left out.
C23_Witness ==
    /\ prompt # NoPrompt
    /\ Len(pbChunks) = 3
    /\ OverBudgetAt(2)
    /\ EstimateTokens(pbChunks[1].content.len) + EstimateTokens(pbChunks[3].content.len)
           <= MAX_CONTEXT_TOKENS
    /\ prompt.contextChunks = <<pbChunks[1]>>

\* ---------------------------------------------------------------------------
\* What the query hands to the generation gateway
\* ---------------------------------------------------------------------------

\* C24 (as stated): on the generation path the request handed to the gateway
\* carries both blocks of the built prompt, the system instructions and the
\* user instructions.
C24_RequestCarriesBothBlocks ==
    generateArgs.called =>
        /\ generateArgs.prompt = prompt.userPrompt
        /\ "system" \in DOMAIN generateArgs
        /\ generateArgs.system = prompt.systemPrompt

\* ---------------------------------------------------------------------------
\* Keywords
\* ---------------------------------------------------------------------------

\* C25 (as stated): every keyword analyze returns has at least three
\* characters and is no stop word, also for tokens that carry punctuation.
C25_KeywordsLongAndNotStopWords ==
    aqResult # NoAnalysis =>
        \A i \in 1..Len(aqResult.keywords) :
            /\ Len(aqResult.keywords[i]) >= 3
            /\ aqResult.keywords[i] \notin StopWords

\* ---------------------------------------------------------------------------
\* The list retrieve returns
\* ---------------------------------------------------------------------------

\* What the vector search of the recorded retrieve call found, each result
\* with its combined score, in search order.
SearchCandidates ==
    LET o == rtCall.opts
        searchOptions ==
            [projectId     |-> o.projectId,
             documentTypes |-> IF o.hasDocumentTypes THEN o.documentTypes
                               ELSE rtCall.query.documentTypes,
             limit         |-> 2 * o.limit,
             threshold     |-> o.threshold]
        results == VectorSearch(rtCall.rows, searchOptions)
    IN  [i \in 1..Len(results) |->
            [chunkId |-> results[i].chunkId, content |-> results[i].content,
             score |-> CalculateScore(results[i], rtCall.query)]]

\* C26: with reranking and deduplication enabled, retrieve returns at most
\* limit passages in non-increasing score order, each the best of its
\* fingerprint group, and a group left out scores no higher than any passage
\* returned (and is left out only because the list is full).
C26_TopSurvivorsReturned ==
    (rtResult.ok /\ rtCall.opts.rerank /\ rtCall.opts.deduplicate) =>
        LET out  == rtResult.chunks
            cand == SearchCandidates
        IN  /\ Len(out) <= rtCall.opts.limit
            /\ \A i \in 1..(Len(out) - 1) : out[i].score >= out[i + 1].score
            /\ \A i \in 1..Len(out) :
                   /\ GroupOf(cand, FingerprintOf(out[i])) # {}
                   /\ out[i].score = MaxScoreOf(cand, FingerprintOf(out[i]))
                   /\ GroupOf(out, FingerprintOf(out[i])) = {i}
            /\ \A k \in 1..Len(cand) :
                   GroupOf(out, FingerprintOf(cand[k])) = {} =>
                       /\ Len(out) = rtCall.opts.limit
                       /\ \A i \in 1..Len(out) :
                              MaxScoreOf(cand, FingerprintOf(cand[k])) <= out[i].score

\* C26 witness: with limit 1 the search found two passages of different
\* fingerprints, the nearer one scoring lower; the farther one was returned.
C26_Witness ==
    /\ rtResult.ok /\ rtCall.opts.rerank /\ rtCall.opts.deduplicate
    /\ rtCall.opts.limit = 1
    /\ Len(SearchCandidates) = 2
    /\ FingerprintOf(SearchCandidates[1]) # FingerprintOf(SearchCandidates[2])
    /\ SearchCandidates[1].score < SearchCandidates[2].score
    /\ Len(rtResult.chunks) = 1
    /\ rtResult.chunks[1].chunkId = SearchCandidates[2].chunkId

\* C26 second case: with limit 2 two of three passages found shared a
\* fingerprint and two survivors were returned.
C26_DuplicateRemovedBeforeCut ==
    /\ rtResult.ok /\ rtCall.opts.rerank /\ rtCall.opts.deduplicate
    /\ rtCall.opts.limit = 2
    /\ Len(SearchCandidates) = 3
    /\ \E i, j \in 1..3 :
          i # j /\ FingerprintOf(SearchCandidates[i]) = FingerprintOf(SearchCandidates[j])
    /\ Len(rtResult.chunks) = 2

(***************************************************************************)
(* SessionManager                                                          *)
(* A message is its role and its content; the content is the number of     *)
(* the message, counted over everything the session was ever given.        *)
(***************************************************************************)
MAX_CONTEXT_MESSAGES == 20

\* Array.prototype.slice(start) with one argument: a negative start counts
\* from the end, and -0 is 0.
Slice(seq, start) ==
    LET from == IF start < 0 THEN (IF Len(seq) + start > 0 THEN Len(seq) + start ELSE 0)
                ELSE Min(start, Len(seq))
    IN  SubSeq(seq, from + 1, Len(seq))

IsSystemMessage(m) == m.role = "system"
IsOtherMessage(m) == m.role # "system"

\* A plausible slip: the oldest messages are cut off whatever their role.
TrimContextDropsOldest(context) ==
    IF Len(context) > MAX_CONTEXT_MESSAGES
    THEN Slice(context, -MAX_CONTEXT_MESSAGES)
    ELSE context

\* if (session.context.length > MAX_CONTEXT_MESSAGES) { ... }
TrimContext(context) ==
    IF Len(context) > MAX_CONTEXT_MESSAGES
    THEN LET systemMessages == SelectSeq(context, IsSystemMessage)
             otherMessages  == SelectSeq(context, IsOtherMessage)
             trimmed == Slice(otherMessages, -(MAX_CONTEXT_MESSAGES - Len(systemMessages)))
         IN  systemMessages \o trimmed
    ELSE context

\* The initial contexts a session is created with: a number of system
\* messages and a number of earlier user messages, either kind first.
InitialSystemCounts == {0, 1, 19, 20, 21}
InitialOtherCounts == {0, 2}

InitialContexts ==
    { [i \in 1..(ns + no) |->
          [role |-> IF (systemFirst /\ i <= ns) \/ (~systemFirst /\ i > no)
                    THEN "system" ELSE "user",
           content |-> i]] :
        ns \in InitialSystemCounts, no \in InitialOtherCounts, systemFirst \in BOOLEAN }

MaxAddMessages == 3

\* createSession(projectId, { initialContext })
CreateSession ==
    /\ ~smSession.exists
    /\ \E initialContext \in InitialContexts :
         smSession' = [exists |-> TRUE, context |-> initialContext, messageCount |-> 0]
    /\ UNCHANGED <<smBefore, smAdded>>
    /\ UNCHANGED <<pipelineVars, stateVars, ingestVars>>

\* addMessage(sessionId, role, content) on the session that exists.
AddMessage ==
    /\ smSession.exists
    /\ Len(smAdded) < MaxAddMessages
    /\ \E role \in {"user", "assistant"} :
         LET message == [role |-> role,
                         content |-> 100 + Len(smAdded) + 1]
             pushed  == Append(smSession.context, message)
         IN  /\ smBefore' = smSession.context
             /\ smAdded' = Append(smAdded, message)
             /\ smSession' = [exists |-> TRUE, context |-> TrimContext(pushed),
                              messageCount |-> Len(pushed)]
    /\ UNCHANGED <<pipelineVars, stateVars, ingestVars>>

InitSession ==
    /\ config \in {[deepseekApiKey |-> FALSE, kimiApiKey |-> FALSE, openaiApiKey |-> FALSE]}
    /\ providers = <<>>
    /\ isInitialized = FALSE
    /\ llmPromise = "resolved"
    /\ IdleChat /\ IdleQuery /\ IdleProcessor /\ IdleRetrieval /\ IdleSolo

NextSession == CreateSession \/ AddMessage

SpecSession == InitSession /\ [][NextSession]_vars

\* The context the last addMessage call worked on: what the session held plus
\* the message of the call.
Offered == Append(smBefore, smAdded[Len(smAdded)])

IsSuffixOf(a, b) == Len(a) <= Len(b) /\ a = SubSeq(b, Len(b) - Len(a) + 1, Len(b))

\* C27 (as stated): after every addMessage the context holds at most 20
\* messages, every system message that was in it is still in it, and the
\* other messages kept are the most recent ones in their order.
C27_ContextBoundedSystemKept ==
    smAdded # <<>> =>
        /\ Len(smSession.context) <= MAX_CONTEXT_MESSAGES
        /\ SelectSeq(smSession.context, IsSystemMessage) = SelectSeq(Offered, IsSystemMessage)
        /\ IsSuffixOf(SelectSeq(smSession.context, IsOtherMessage),
                      SelectSeq(Offered, IsOtherMessage))

(***************************************************************************)
(* ProjectStateManager over the table project_states of one project.       *)
(* A decision, constraint or blocker is named by the number of the call    *)
(* that created it (its randomUUID).  Every await is a point where other   *)
(* calls may run; a read of the table happens when the store is called.    *)
(***************************************************************************)
NoSnapshot ==
    [exists |-> FALSE, phase |-> None, objectives |-> <<>>, assumptions |-> <<>>,
     constraints |-> <<>>, decisions |-> <<>>, blockers |-> <<>>]

\* initialState = {}: phase 'design' and five empty lists.
DefaultSnapshot ==
    [exists |-> TRUE, phase |-> "design", objectives |-> <<>>, assumptions |-> <<>>,
     constraints |-> <<>>, decisions |-> <<>>, blockers |-> <<>>]

SnapshotFields == {"phase", "objectives", "assumptions", "constraints", "decisions", "blockers"}

\* getLatestProjectState(projectId): the row of the highest version.
LatestVersion(rows) ==
    IF rows = <<>> THEN 0
    ELSE CHOOSE v \in {rows[i].version : i \in 1..Len(rows)} :
             \A i \in 1..Len(rows) : rows[i].version <= v

LatestRow(rows) ==
    rows[CHOOSE i \in 1..Len(rows) :
             /\ rows[i].version = LatestVersion(rows)
             /\ \A j \in 1..Len(rows) : rows[j].version = LatestVersion(rows) => j <= i]

\* getCurrentState(projectId): state?.state || null
GetCurrentState(rows) == IF rows = <<>> THEN NoSnapshot ELSE LatestRow(rows).state

\* A plausible slip: the table lacks the UNIQUE(project_id, version) constraint.
UniqueProjectVersionUnchecked(rows, version) == TRUE

\* UNIQUE(project_id, version): a row of this version can be inserted.
UniqueProjectVersion(rows, version) == \A i \in 1..Len(rows) : rows[i].version # version

\* An updates argument: the fields it carries and their values.
PhaseUpdates(phase) == [given |-> {"phase"}, value |-> [DefaultSnapshot EXCEPT !.phase = phase]]

\* { ...current, decisions } and its like: every field of current, one replaced.
ItemUpdates(op, current, id, blockerId) ==
    [given |-> SnapshotFields,
     value |->
        CASE op = "addDecision" ->
                 [current EXCEPT !.decisions = Append(current.decisions, [id |-> id])]
          [] op = "addConstraint" ->
                 [current EXCEPT !.constraints = Append(current.constraints, [id |-> id])]
          [] op = "addBlocker" ->
                 [current EXCEPT
                     !.blockers = Append(current.blockers, [id |-> id, resolved |-> FALSE])]
          [] OTHER ->
                 [current EXCEPT
                     !.blockers = [i \in 1..Len(current.blockers) |->
                                      IF current.blockers[i].id = blockerId
                                      THEN [current.blockers[i] EXCEPT !.resolved = TRUE]
                                      ELSE current.blockers[i]]]]

\* updateState: updates.f || current?.f || default, for each field; a list,
\* even an empty one, and a phase name are truthy.
MergeUpdates(updates, current) ==
    LET take(f) == IF f \in updates.given THEN updates.value[f]
                   ELSE IF current.exists THEN current[f]
                   ELSE DefaultSnapshot[f]
    IN  [exists |-> TRUE, phase |-> take("phase"), objectives |-> take("objectives"),
         assumptions |-> take("assumptions"), constraints |-> take("constraints"),
         decisions |-> take("decisions"), blockers |-> take("blockers")]

MaxStateCalls == 3

NewPhases == {"development"}

NoUpdates == [given |-> {}, value |-> NoSnapshot]

NewCall(op, pc, arg, updates) ==
    [op |-> op, pc |-> pc, arg |-> arg, cur |-> GetCurrentState(psRows),
     updates |-> updates, merged |-> NoSnapshot, latest |-> 0]

InFlight(k) == k \in 1..Len(psCalls) /\ psCalls[k].pc \notin {"saved", "threw"}

\* saveState(projectId, snapshot, version, options): the insert succeeds or the
\* constraint of the table rejects it.
SaveState(k, snapshot, version) ==
    IF UniqueProjectVersion(psRows, version)
    THEN /\ psRows' = Append(psRows, [version |-> version, state |-> snapshot, call |-> k])
         /\ psCalls' = [psCalls EXCEPT ![k].pc = "saved"]
         /\ psLog' = Append(psLog, [call |-> k, op |-> psCalls[k].op, saved |-> TRUE,
                                    version |-> version, before |-> GetCurrentState(psRows)])
    ELSE /\ psCalls' = [psCalls EXCEPT ![k].pc = "threw"]
         /\ psLog' = Append(psLog, [call |-> k, op |-> psCalls[k].op, saved |-> FALSE,
                                    version |-> version, before |-> GetCurrentState(psRows)])
         /\ UNCHANGED psRows

Throw(k) ==
    /\ psCalls' = [psCalls EXCEPT ![k].pc = "threw"]
    /\ psLog' = Append(psLog, [call |-> k, op |-> psCalls[k].op, saved |-> FALSE,
                               version |-> 0, before |-> GetCurrentState(psRows)])
    /\ UNCHANGED psRows

\* initializeState: const existing = await this.getCurrentState(projectId)
BeginInitialize ==
    /\ Len(psCalls) < MaxStateCalls
    /\ psCalls' = Append(psCalls, NewCall("initializeState", "initChecked", 0, NoUpdates))
    /\ UNCHANGED <<psRows, psLog>>
    /\ UNCHANGED <<pipelineVars, sessionVars, ingestVars>>

\* initializeState resumed: throw if a state exists, else save version 1.
FinishInitialize(k) ==
    /\ InFlight(k)
    /\ psCalls[k].pc = "initChecked"
    /\ IF psCalls[k].cur.exists THEN Throw(k) ELSE SaveState(k, DefaultSnapshot, 1)
    /\ UNCHANGED <<pipelineVars, sessionVars, ingestVars>>

\* addDecision / addConstraint / addBlocker: const current = await this.getCurrentState(...)
BeginAdd ==
    /\ Len(psCalls) < MaxStateCalls
    /\ \E op \in {"addDecision", "addConstraint", "addBlocker"} :
         psCalls' = Append(psCalls, NewCall(op, "gotCurrent", 0, NoUpdates))
    /\ UNCHANGED <<psRows, psLog>>
    /\ UNCHANGED <<pipelineVars, sessionVars, ingestVars>>

\* resolveBlocker(projectId, blockerId) for a blocker the project has.
BeginResolveBlocker ==
    /\ Len(psCalls) < MaxStateCalls
    /\ \E b \in Range(GetCurrentState(psRows).blockers) :
         psCalls' = Append(psCalls, NewCall("resolveBlocker", "gotCurrent", b.id, NoUpdates))
    /\ UNCHANGED <<psRows, psLog>>
    /\ UNCHANGED <<pipelineVars, sessionVars, ingestVars>>

\* add* / resolveBlocker resumed: throw without a state, else build the updates
\* and enter updateState, which reads the current state again.
EnterUpdate(k) ==
    /\ InFlight(k)
    /\ psCalls[k].pc = "gotCurrent"
    /\ IF ~psCalls[k].cur.exists
       THEN Throw(k)
       ELSE /\ psCalls' = [psCalls EXCEPT
                              ![k].updates = ItemUpdates(psCalls[k].op, psCalls[k].cur, k,
                                                         psCalls[k].arg),
                              ![k].cur = GetCurrentState(psRows),
                              ![k].pc = "inUpdate"]
            /\ UNCHANGED <<psRows, psLog>>
    /\ UNCHANGED <<pipelineVars, sessionVars, ingestVars>>

\* updatePhase(projectId, phase): updateState(projectId, { phase }, ...)
BeginUpdatePhase ==
    /\ Len(psCalls) < MaxStateCalls
    /\ \E phase \in NewPhases :
         psCalls' = Append(psCalls, NewCall("updatePhase", "inUpdate", 0, PhaseUpdates(phase)))
    /\ UNCHANGED <<psRows, psLog>>
    /\ UNCHANGED <<pipelineVars, sessionVars, ingestVars>>

\* updateState resumed: merge, then const latest = await getLatestProjectState(...)
ReadLatest(k) ==
    /\ InFlight(k)
    /\ psCalls[k].pc = "inUpdate"
    /\ psCalls' = [psCalls EXCEPT
                      ![k].merged = MergeUpdates(psCalls[k].updates, psCalls[k].cur),
                      ![k].latest = LatestVersion(psRows),
                      ![k].pc = "gotLatest"]
    /\ UNCHANGED <<psRows, psLog>>
    /\ UNCHANGED <<pipelineVars, sessionVars, ingestVars>>

\* updateState resumed: version = (latest?.version || 0) + 1; saveState(...)
SaveUpdate(k) ==
    /\ InFlight(k)
    /\ psCalls[k].pc = "gotLatest"
    /\ SaveState(k, psCalls[k].merged, psCalls[k].latest + 1)
    /\ UNCHANGED <<pipelineVars, sessionVars, ingestVars>>

InitState ==
    /\ config \in {[deepseekApiKey |-> FALSE, kimiApiKey |-> FALSE, openaiApiKey |-> FALSE]}
    /\ providers = <<>>
    /\ isInitialized = FALSE
    /\ llmPromise = "resolved"
    /\ IdleChat /\ IdleQuery /\ IdleProcessor /\ IdleRetrieval /\ IdleSolo

NextState ==
    \/ BeginInitialize
    \/ BeginAdd
    \/ BeginResolveBlocker
    \/ BeginUpdatePhase
    \/ \E k \in 1..MaxStateCalls : FinishInitialize(k)
    \/ \E k \in 1..MaxStateCalls : EnterUpdate(k)
    \/ \E k \in 1..MaxStateCalls : ReadLatest(k)
    \/ \E k \in 1..MaxStateCalls : SaveUpdate(k)

SpecState == InitState /\ [][NextState]_vars

AddOperations == {"addDecision", "addConstraint", "addBlocker"}

TargetOf(op) ==
    CASE op = "addDecision" -> "decisions"
      [] op = "addConstraint" -> "constraints"
      [] OTHER -> "blockers"

\* The identifiers of the items a list of the snapshot holds.
ItemIds(items) == {items[i].id : i \in 1..Len(items)}

\* C29 (as stated): once a set of addDecision, addConstraint and addBlocker
\* calls on an initialised project have all completed successfully, in any
\* interleaving, the latest state holds every item they added, and each call
\* left the fields it does not target as they were.
C29_NoLostUpdate ==
    (/\ psCalls # <<>>
     /\ \A k \in 1..Len(psCalls) :
            /\ psCalls[k].pc = "saved"
            /\ psCalls[k].op \in AddOperations \cup {"initializeState"}) =>
        LET latest == GetCurrentState(psRows)
        IN  /\ \A k \in 1..Len(psCalls) :
                   psCalls[k].op \in AddOperations =>
                       k \in ItemIds(latest[TargetOf(psCalls[k].op)])
            /\ \A j \in 1..Len(psLog) :
                   psLog[j].op \in AddOperations =>
                       \A f \in SnapshotFields \ {TargetOf(psLog[j].op)} :
                           psRows[psLog[j].version].state[f] = psLog[j].before[f]

(***************************************************************************)
(* IngestionService.ingestDocument over the table documents of one project *)
(***************************************************************************)
\* The contents handed to ingestDocument.
IngestContents == {"# Guide", "openapi: 3.0.0", "@startuml"}

\* hashString(contentString): SHA-256, named by the content it digests.
HashString(fileContent) ==
    CASE fileContent = "# Guide" -> "sha256:guide"
      [] fileContent = "openapi: 3.0.0" -> "sha256:openapi"
      [] OTHER -> "sha256:plantuml"

\* Where a call fails, if it does: the parser, createChunks, the embedder,
\* createChunksWithEmbeddings.
IngestFailures == {"parse", "chunk", "embed", "store"}

\* existingDocs.find(d => d.hash === hash)
FindDuplicate(docs, hash) == {i \in 1..Len(docs) : docs[i].hash = hash}

\* this.storage.createDocument(document) with status 'processing'
CreateDocument(docs, id, hash) ==
    Append(docs, [id |-> id, hash |-> hash, status |-> "processing", chunkCount |-> 0])

\* this.storage.updateDocumentStatus(documentId, 'indexed', { chunkCount, ... })
UpdateDocumentStatus(docs, id, status, chunkCount) ==
    [i \in 1..Len(docs) |->
        IF docs[i].id = id
        THEN [docs[i] EXCEPT !.status = status, !.chunkCount = chunkCount]
        ELSE docs[i]]

\* ingestDocument(projectId, fileName, content): the rows afterwards and
\* whether the call threw; the catch block logs and rethrows.
IngestDocument(docs, id, fileContent, failAt) ==
    LET hash == HashString(fileContent)
    IN  IF failAt = "parse"
        THEN [docs |-> docs, threw |-> TRUE, message |-> "parse failed"]
        ELSE IF FindDuplicate(docs, hash) # {}
        THEN [docs |-> docs, threw |-> TRUE, message |-> "Document already exists"]
        ELSE LET created == CreateDocument(docs, id, hash)
             IN  IF failAt \in {"chunk", "embed", "store"}
                 THEN [docs |-> created, threw |-> TRUE, message |-> failAt]
                 ELSE [docs |-> UpdateDocumentStatus(created, id, "indexed", 2),
                       threw |-> FALSE, message |-> None]

MaxIngestCalls == 3

\* ingestionService.ingestDocument(projectId, fileName, content)
Ingest ==
    /\ igCount < MaxIngestCalls
    /\ \E fileContent \in IngestContents, failAt \in IngestFailures \cup {None} :
         LET r == IngestDocument(igDocs, igCount + 1, fileContent, failAt)
         IN  /\ igDocs' = r.docs
             /\ igLast' = [content |-> fileContent, failure |-> failAt, threw |-> r.threw,
                           message |-> r.message]
    /\ igBefore' = igDocs
    /\ igCount' = igCount + 1
    /\ UNCHANGED <<pipelineVars, sessionVars, stateVars>>

InitIngest ==
    /\ config \in {[deepseekApiKey |-> FALSE, kimiApiKey |-> FALSE, openaiApiKey |-> FALSE]}
    /\ providers = <<>>
    /\ isInitialized = FALSE
    /\ llmPromise = "resolved"
    /\ IdleChat /\ IdleQuery /\ IdleProcessor /\ IdleRetrieval /\ IdleSolo

NextIngest == Ingest

SpecIngest == InitIngest /\ [][NextIngest]_vars

\* C30 (as stated): whenever ingestDocument throws, the stored documents are
\* those of before the call, none is left in status 'processing', and unless
\* the content was a duplicate no stored document carries its hash, so that a
\* later ingestion of the same content is not rejected.
C30_FailedIngestLeavesNoTrace ==
    igLast.threw =>
        /\ igDocs = igBefore
        /\ \A i \in 1..Len(igDocs) : igDocs[i].status # "processing"
        /\ igLast.message # "Document already exists" =>
               FindDuplicate(igDocs, HashString(igLast.content)) = {}

=============================================================================
